---------------------------- MODULE Spec2Model ----------------------------
(***************************************************************************)
(* A model of scripts/maint/updateFallbackDirs.py: the fallback directory  *)
(* selection script.  Python strings that the script parses (addresses,    *)
(* ports) are sequences of one-character strings; strings that are only    *)
(* compared for equality (fingerprints, nicknames) are atomic.             *)
(***************************************************************************)
EXTENDS Integers, Sequences, FiniteSets, TLC

VARIABLES
  config,          \* the top-level configuration switches of the script
  pc,              \* where the run is
  doc,             \* the relays array of the details document
  idx,             \* position of the loop over the document / the fallbacks
  candidates,      \* CandidateList as a dict: fingerprint -> Candidate
  fallbacks,       \* CandidateList.fallbacks
  whitelist,       \* the parsed whitelist
  blacklist,       \* the parsed blacklist
  result,          \* what the last call returned (or raised)
  guard_count,     \* list_fallbacks: guard_count
  active_count,    \* list_fallbacks: active_count
  prefilter_fallbacks, \* list_fallbacks: the copy of the list before filtering
  probes,          \* the dl_speed_ok of every relay probed so far, in order
  output,          \* what the run has printed so far
  arg,             \* the argument of the call under way
  now,             \* datetime.datetime.utcnow(), in seconds
  downloads        \* per relay probed, its calls of fallback_consensus_dl_speed

vars == <<config, pc, doc, idx, candidates, fallbacks, whitelist, blacklist,
          result, guard_count, active_count, prefilter_fallbacks, probes,
          output, arg, now, downloads>>

---------------------------------------------------------------------------
(* Python values *)

None == <<>>
Some(v) == <<v>>
IsNone(o) == o = <<>>
TheVal(o) == o[1]

\* a call that returned v
Return(v) == [exc |-> "none", ret |-> v]
\* a call that raised the exception e
Raise(e) == [exc |-> e, ret |-> FALSE]

Min(a, b) == IF a <= b THEN a ELSE b

\* Python floats that are fractions: <<n, d>> is n / d, in lowest terms
RECURSIVE Gcd(_, _)
Gcd(a, b) == IF b = 0 THEN a ELSE Gcd(b, a % b)

Rat(n, d) == <<n \div Gcd(n, d), d \div Gcd(n, d)>>

rat_less(a, b) == a[1] * b[2] < b[1] * a[2]

---------------------------------------------------------------------------
(* Python str operations, on sequences of characters *)

Digits == {"0", "1", "2", "3", "4", "5", "6", "7", "8", "9"}

DigitVal(c) ==
  CASE c = "0" -> 0 [] c = "1" -> 1 [] c = "2" -> 2 [] c = "3" -> 3
    [] c = "4" -> 4 [] c = "5" -> 5 [] c = "6" -> 6 [] c = "7" -> 7
    [] c = "8" -> 8 [] c = "9" -> 9

\* the code point of a character: str comparison and the regular expression
\* character classes go by it
Ord(c) ==
  CASE c \in Digits -> 48 + DigitVal(c)
    [] c = " " -> 32 [] c = "+" -> 43 [] c = "-" -> 45
    [] c = "." -> 46 [] c = ":" -> 58
    [] c = "A" -> 65 [] c = "F" -> 70 [] c = "G" -> 71 [] c = "Z" -> 90
    [] c = "[" -> 91 [] c = "]" -> 93 [] c = "_" -> 95
    [] c = "a" -> 97 [] c = "b" -> 98 [] c = "c" -> 99 [] c = "d" -> 100
    [] c = "e" -> 101 [] c = "f" -> 102 [] c = "g" -> 103 [] c = "z" -> 122

\* str.isdigit()
isdigit(s) == Len(s) > 0 /\ \A i \in 1..Len(s) : s[i] \in Digits

\* the number that a string of decimal digits writes
RECURSIVE digits_value(_)
digits_value(s) ==
  IF Len(s) = 0 THEN 0
  ELSE 10 * digits_value(SubSeq(s, 1, Len(s) - 1)) + DigitVal(s[Len(s)])

\* str.strip() of blanks
RECURSIVE strip(_)
strip(s) ==
  IF Len(s) = 0 THEN s
  ELSE IF s[1] = " " THEN strip(Tail(s))
  ELSE IF s[Len(s)] = " " THEN strip(SubSeq(s, 1, Len(s) - 1))
  ELSE s

\* int(s): blanks around the literal and after its sign are skipped, one
\* sign is allowed, and what is left must be decimal digits; the empty
\* string and every other literal raise ValueError.

\* the digits after the sign and the blanks
signed_int(negative, digits) ==
  IF ~isdigit(digits) THEN Raise("ValueError")
  ELSE Return(IF negative THEN 0 - digits_value(digits)
              ELSE digits_value(digits))

\* the literal without the blanks around it
int_of_stripped(literal) ==
  IF Len(literal) > 0 /\ literal[1] \in {"+", "-"}
  THEN signed_int(literal[1] = "-", strip(Tail(literal)))
  ELSE signed_int(FALSE, literal)

int_of_literal(s) == int_of_stripped(strip(s))

\* int_of_literal of the port literals that recur in the documents and the
\* lists below, evaluated once
IntOfPortLiteral ==
  [s \in {<<>>, <<"8", "0">>, <<"4", "4", "3">>, <<"9", "0", "0", "1">>,
          <<"9", "0", "0", "2">>} |-> int_of_literal(s)]

\* table[s] where the table has it, int_of_literal(s) else
known_or_parsed(table, s) ==
  IF s \in DOMAIN table THEN table[s] ELSE int_of_literal(s)

\* int(s)
py_int(s) == known_or_parsed(IntOfPortLiteral, s)

\* int(s) == n, for a caller that has seen int(s) return
int_is(s, n) == LET i == py_int(s) IN i.exc = "none" /\ i.ret = n

---------------------------------------------------------------------------
(* The order of the keys of a dict.  The script runs on Python 2 (print
   statements, has_key), whose dict is a table of 8 slots, 32 once 6 keys are
   in: a key goes to the first free slot of its probe sequence, and keys()
   and "for key in d" walk the slots in ascending order. *)

\* the first eight slots that a key probes in a table of 32 slots; in a table
\* of 8 slots they are these modulo 8.  The keys are those of a list entry and
\* the period names of a history.
KeyProbes(key) ==
  CASE key = "ipv4" -> <<21, 31, 21, 29, 31, 15, 19, 10>>
    [] key = "dirport" -> <<7, 11, 5, 6, 26, 25, 1, 17>>
    [] key = "orport" -> <<12, 9, 10, 18, 15, 28, 14, 25>>
    [] key = "id" -> <<29, 15, 24, 10, 20, 14, 26, 29>>
    [] key = "ipv6" -> <<23, 11, 17, 9, 27, 27, 15, 22>>
    [] key = "1_month" -> <<9, 23, 2, 13, 4, 2, 1, 27>>
    [] key = "1_week" -> <<30, 21, 5, 0, 11, 20, 19, 25>>
    [] key = "1_year" -> <<17, 7, 22, 4, 15, 9, 22, 22>>
    [] key = "3_days" -> <<5, 31, 27, 10, 26, 14, 27, 24>>
    [] key = "3_months" -> <<15, 27, 7, 0, 6, 6, 19, 18>>
    [] key = "5_years" -> <<13, 15, 0, 20, 11, 11, 16, 1>>

\* a table with no key in it
EmptyTable(size) == [slot \in 1..size |-> ""]

\* the table with one more key in it
dict_insert(table, key) ==
  LET slot(k) == (KeyProbes(key)[k] % Len(table)) + 1
      first == CHOOSE k \in 1..8 :
                 table[slot(k)] = "" /\ \A j \in 1..(k - 1) : table[slot(j)] # ""
  IN [table EXCEPT ![slot(first)] = key]

\* the keys of a table, slot by slot
table_keys(table) == SelectSeq(table, LAMBDA key : key # "")

\* the table after the keys are set one after the other; it is rebuilt with
\* 32 slots when two thirds of its slots are taken
RECURSIVE dict_fill(_, _)
dict_fill(table, keys) ==
  IF keys = <<>> THEN table
  ELSE LET filled == dict_insert(table, Head(keys))
       IN IF Len(table_keys(filled)) * 3 >= Len(filled) * 2
          THEN dict_fill(dict_fill(EmptyTable(32), table_keys(filled)),
                         Tail(keys))
          ELSE dict_fill(filled, Tail(keys))

\* d.keys() of the dict whose keys were set in the order of the list keys
dict_keys(keys) == table_keys(dict_fill(EmptyTable(8), keys))

\* The sets of the keys in the list names are numbered, bit k of the number
\* for the k-th name.  The number of the set keys:
RECURSIVE key_set_number(_, _)
key_set_number(names, keys) ==
  IF names = <<>> THEN 0
  ELSE (IF Head(names) \in keys THEN 1 ELSE 0)
         + 2 * key_set_number(Tail(names), keys)

\* the keys of the set numbered n, in the order of names
RECURSIVE numbered_keys(_, _)
numbered_keys(names, n) ==
  IF names = <<>> THEN <<>>
  ELSE (IF n % 2 = 1 THEN <<Head(names)>> ELSE <<>>)
         \o numbered_keys(Tail(names), n \div 2)

\* d.keys() for every set of the keys names, each set in the order of names
key_orders(names) ==
  [n \in 0..(2 ^ Len(names) - 1) |-> dict_keys(numbered_keys(names, n))]

\* str.count(ch) for a single character
RECURSIVE count(_, _)
count(s, ch) ==
  IF Len(s) = 0 THEN 0
  ELSE (IF s[1] = ch THEN 1 ELSE 0) + count(Tail(s), ch)

\* str.split(ch): the pieces between the occurrences of ch
RECURSIVE split(_, _)
split(s, ch) ==
  IF count(s, ch) = 0 THEN <<s>>
  ELSE LET i == CHOOSE k \in 1..Len(s) :
                  s[k] = ch /\ \A j \in 1..(k - 1) : s[j] # ch
       IN <<SubSeq(s, 1, i - 1)>> \o split(SubSeq(s, i + 1, Len(s)), ch)

\* str.rsplit(':', 1): split at the last colon, if there is one
rsplit_colon(s) ==
  IF count(s, ":") = 0 THEN <<s>>
  ELSE LET i == CHOOSE k \in 1..Len(s) :
                  s[k] = ":" /\ \A j \in (k + 1)..Len(s) : s[j] # ":"
       IN <<SubSeq(s, 1, i - 1), SubSeq(s, i + 1, Len(s))>>

\* sub in s, for a string sub
contains(s, sub) ==
  \E i \in 1..(Len(s) - Len(sub) + 1) : SubSeq(s, i, i + Len(sub) - 1) = sub

\* str.count(sub): occurrences that do not overlap, from the left
RECURSIVE count_sub(_, _)
count_sub(s, sub) ==
  IF Len(s) < Len(sub) THEN 0
  ELSE IF SubSeq(s, 1, Len(sub)) = sub
       THEN 1 + count_sub(SubSeq(s, Len(sub) + 1, Len(s)), sub)
       ELSE count_sub(Tail(s), sub)

\* s1 < s2 in Python's str order
RECURSIVE str_less(_, _)
str_less(s1, s2) ==
  IF Len(s2) = 0 THEN FALSE
  ELSE IF Len(s1) = 0 THEN TRUE
  ELSE IF s1[1] = s2[1] THEN str_less(Tail(s1), Tail(s2))
  ELSE Ord(s1[1]) < Ord(s2[1])

\* sorted(l) for a list of strings: insertion into a sorted list, stable
RECURSIVE sorted(_)
sorted(l) ==
  IF Len(l) = 0 THEN <<>>
  ELSE LET rest == sorted(SubSeq(l, 1, Len(l) - 1))
           x == l[Len(l)]
           k == Cardinality({i \in 1..Len(rest) : ~str_less(x, rest[i])})
       IN SubSeq(rest, 1, k) \o <<x>> \o SubSeq(rest, k + 1, Len(rest))

---------------------------------------------------------------------------
(* Candidate: the address validators *)

\* the check without the test for leading zeros
is_valid_ipv4_address_leading_zeros(address) ==
  IF count(address, ".") # 3 THEN FALSE
  ELSE \A k \in 1..4 :
         LET entry == split(address, ".")[k]
         IN isdigit(entry) /\ py_int(entry).ret <= 255

is_valid_ipv4_address(address) ==
  IF count(address, ".") # 3 THEN FALSE
  ELSE \A k \in 1..4 :
         LET entry == split(address, ".")[k]
         IN /\ isdigit(entry)
            /\ py_int(entry).ret <= 255
            /\ ~(entry[1] = "0" /\ Len(entry) > 1)

\* re.match("^[0-9a-fA-f]{0,4}$", entry): the class A-f is a range of code
\* points, 65..102
ipv6_group_re(entry) ==
  /\ Len(entry) <= 4
  /\ \A i \in 1..Len(entry) :
       Ord(entry[i]) \in 48..57 \/ Ord(entry[i]) \in 97..102
         \/ Ord(entry[i]) \in 65..102

\* the loop over address.split(":"): found is found_ipv4_on_previous_entry
RECURSIVE ipv6_groups_ok(_, _)
ipv6_groups_ok(groups, found) ==
  IF Len(groups) = 0 THEN TRUE
  ELSE IF found THEN FALSE
  ELSE IF ~ipv6_group_re(groups[1])
       THEN IF ~is_valid_ipv4_address(groups[1]) THEN FALSE
            ELSE ipv6_groups_ok(Tail(groups), TRUE)
       ELSE ipv6_groups_ok(Tail(groups), found)

is_valid_ipv6_address(addr) ==
  LET address == SubSeq(addr, 2, Len(addr) - 1)    \* address[1:-1]
      colon_count == count(address, ":")
  IN IF colon_count > 7 THEN FALSE
     ELSE IF colon_count # 7 /\ ~contains(address, <<":", ":">>) THEN FALSE
     ELSE IF count_sub(address, <<":", ":">>) > 1
               \/ contains(address, <<":", ":", ":">>) THEN FALSE
     ELSE ipv6_groups_ok(split(address, ":"), FALSE)

---------------------------------------------------------------------------
(* Candidate.__init__ *)

\* a dict with key k set to v
SetKey(d, k, v) == [x \in (DOMAIN d) \cup {k} |-> IF x = k THEN v ELSE d[x]]

\* parse_ts: a timestamp of the document, <<day, second of the day>>, as a
\* point on the time line, in seconds
parse_ts(t) == t[1] * 86400 + t[2]

RequiredFields ==
  <<"fingerprint", "nickname", "last_changed_address_or_port",
    "consensus_weight", "or_addresses", "dir_address">>

\* the addresses left in the order received
_stable_sort_or_addresses_received_order(or_addresses) == or_addresses

\* the primary address stays first, the secondaries are put in string order
_stable_sort_or_addresses(or_addresses) ==
  LET or_address_primary == SubSeq(or_addresses, 1, Min(1, Len(or_addresses)))
      or_addresses_secondaries_stable ==
        sorted(SubSeq(or_addresses, 2, Len(or_addresses)))
  IN or_address_primary \o or_addresses_secondaries_stable

\* (self.dirip, _dirport) = dir_address.split(':', 2); self.dirport = int(..)
_split_dirport(dir_address) ==
  IF count(dir_address, ":") # 1 THEN Raise("ValueError")
  ELSE LET parts == split(dir_address, ":")
           dirport == py_int(parts[2])
       IN IF dirport.exc # "none" THEN dirport
          ELSE Return([dirip |-> parts[1], dirport |-> dirport.ret])

\* as _compute_orport, looking at the primary address only
_compute_orport_primary_only(or_addresses, dirip) ==
  IF Len(or_addresses) = 0 THEN Return(None)
  ELSE LET parts == rsplit_colon(or_addresses[1])
           orport == py_int(parts[2])
       IN IF Len(parts) # 2 THEN Raise("ValueError")
          ELSE IF parts[1] = dirip /\ is_valid_ipv4_address(parts[1])
               THEN IF orport.exc # "none" THEN orport
                    ELSE Return(Some(orport.ret))
               ELSE Return(None)

\* the first ORPort on the IPv4 address of the DirPort, or None
RECURSIVE _compute_orport(_, _)
_compute_orport(or_addresses, dirip) ==
  IF Len(or_addresses) = 0 THEN Return(None)
  ELSE LET parts == rsplit_colon(or_addresses[1])
           orport == py_int(parts[2])
       IN IF Len(parts) # 2 THEN Raise("ValueError")
          ELSE IF parts[1] = dirip /\ is_valid_ipv4_address(parts[1])
               THEN IF orport.exc # "none" THEN orport
                    ELSE Return(Some(orport.ret))
               ELSE _compute_orport(Tail(or_addresses), dirip)

\* port == self.orport at line 582: port is a str and orport an int, and
\* Python 2 never finds a str equal to an int
str_eq_int(port, orport) == FALSE

\* the first loop of _compute_ipv6addr: an IPv6 address on the ORPort
RECURSIVE ipv6_same_port(_, _)
ipv6_same_port(or_addresses, orport) ==
  IF Len(or_addresses) = 0 THEN Return(None)
  ELSE LET parts == rsplit_colon(or_addresses[1])
       IN IF Len(parts) # 2 THEN Raise("ValueError")
          ELSE IF str_eq_int(parts[2], orport)
                    /\ is_valid_ipv6_address(parts[1])
               THEN Return(Some([ipv6addr |-> parts[1], ipv6orport |-> parts[2]]))
               ELSE ipv6_same_port(Tail(or_addresses), orport)

\* the second loop of _compute_ipv6addr: the first IPv6 address of the list
RECURSIVE ipv6_first(_)
ipv6_first(or_addresses) ==
  IF Len(or_addresses) = 0 THEN Return(None)
  ELSE LET parts == rsplit_colon(or_addresses[1])
       IN IF Len(parts) # 2 THEN Raise("ValueError")
          ELSE IF is_valid_ipv6_address(parts[1])
               THEN Return(Some([ipv6addr |-> parts[1], ipv6orport |-> parts[2]]))
               ELSE ipv6_first(Tail(or_addresses))

_compute_ipv6addr(or_addresses, orport) ==
  LET same == ipv6_same_port(or_addresses, orport)
  IN IF same.exc # "none" \/ ~IsNone(same.ret) THEN same
     ELSE ipv6_first(or_addresses)

\* Candidate(details): the new object, or the exception __init__ raises.
\* A key with a null value is modelled as an absent key.
Candidate(details) ==
  IF \E i \in 1..Len(RequiredFields) : RequiredFields[i] \notin DOMAIN details
  THEN Raise("Exception")
  ELSE
    LET d1 == IF "contact" \in DOMAIN details THEN details
              ELSE SetKey(details, "contact", None)
        d2 == IF "flags" \in DOMAIN d1 THEN d1 ELSE SetKey(d1, "flags", <<>>)
        d3 == IF "advertised_bandwidth" \in DOMAIN d2 THEN d2
              ELSE SetKey(d2, "advertised_bandwidth", 0)
        d4 == SetKey(d3, "last_changed_address_or_port",
                     parse_ts(details["last_changed_address_or_port"]))
        d5 == SetKey(d4, "or_addresses_raw", details["or_addresses"])
        data == SetKey(d5, "or_addresses",
                       _stable_sort_or_addresses(details["or_addresses"]))
        dir == _split_dirport(data["dir_address"])
        orp == _compute_orport(data["or_addresses"], dir.ret.dirip)
        v6 == _compute_ipv6addr(data["or_addresses"], TheVal(orp.ret))
    IN IF dir.exc # "none" THEN dir
       ELSE IF orp.exc # "none" THEN orp
       ELSE IF IsNone(orp.ret) THEN Raise("Exception")
       ELSE IF v6.exc # "none" THEN v6
       ELSE Return(
         [data |-> data,
          fpr |-> data["fingerprint"],
          running |-> Rat(0, 1), guard |-> Rat(0, 1), v2dir |-> Rat(0, 1),
          dirip |-> dir.ret.dirip,
          dirport |-> dir.ret.dirport,
          orport |-> TheVal(orp.ret),
          ipv6addr |-> IF IsNone(v6.ret) THEN None
                       ELSE Some(TheVal(v6.ret).ipv6addr),
          ipv6orport |-> IF IsNone(v6.ret) THEN None
                         ELSE Some(TheVal(v6.ret).ipv6orport)])

---------------------------------------------------------------------------
(* The inputs: address literals and details records *)

\* the clock when the script starts: the start of day 10 of the time line
StartOfRun == 10 * 86400

DropKey(d, k) == [x \in (DOMAIN d) \ {k} |-> d[x]]

DigitChar(i) == CHOOSE c \in Digits : DigitVal(c) = i

\* "1.2.3.<i>"
IPv4Of(i) == <<"1", ".", "2", ".", "3", ".", DigitChar(i)>>
\* "[::<i>]"
IPv6Of(i) == <<"[", ":", ":", DigitChar(i), "]">>

DirPortStr == <<"8", "0">>
AltDirPortStr == <<"4", "4", "3">>
ORPortStr == <<"9", "0", "0", "1">>
AltORPortStr == <<"9", "0", "0", "2">>

\* "<ip>:<port>"
AddrPort(ip, port) == ip \o <<":">> \o port

Fingerprints == <<"F1", "F2", "F3", "F4", "F5", "F6", "F7", "F8">>

\* a complete details record: fingerprint f, IPv4 address i, the two ports,
\* and with a second, IPv6, OR address when v6
RelayDetails(f, i, dirport, orport, v6) ==
  [fingerprint |-> Fingerprints[f],
   nickname |-> "relay",
   last_changed_address_or_port |-> <<0, 0>>,
   consensus_weight |-> 100,
   or_addresses |->
     IF v6 THEN <<AddrPort(IPv4Of(i), orport), AddrPort(IPv6Of(i), orport)>>
     ELSE <<AddrPort(IPv4Of(i), orport)>>,
   dir_address |-> AddrPort(IPv4Of(i), dirport),
   flags |-> <<"Guard", "Running", "V2Dir">>,
   recommended_version |-> TRUE]

GoodDetails(i) == RelayDetails(i, i, DirPortStr, ORPortStr, FALSE)

Ipv6Details(i) == RelayDetails(i, i, DirPortStr, ORPortStr, TRUE)

\* relay i with no OR address on the IPv4 address of its DirPort
NoORPortDetails(i) ==
  SetKey(GoodDetails(i), "or_addresses",
         <<AddrPort(IPv4Of(0), ORPortStr)>>)

\* relay i with the dir_address "1.2.3.i:", a DirPort that int() rejects
EmptyDirPortDetails(i) ==
  SetKey(GoodDetails(i), "dir_address", AddrPort(IPv4Of(i), <<>>))

\* the details records relay i can come with
DetailsOf(i) ==
  {GoodDetails(i), Ipv6Details(i), NoORPortDetails(i), EmptyDirPortDetails(i)}
    \cup {DropKey(GoodDetails(i), RequiredFields[k]) :
            k \in 1..Len(RequiredFields)}

---------------------------------------------------------------------------
(* Top-level configuration.  OUTPUT_CANDIDATES (line 41) and               *)
(* BLACKLIST_EXCLUDES_WHITELIST_ENTRIES (line 90) are the two switches of  *)
(* config; the other settings are computed from them or fixed.             *)

Configs ==
  [OUTPUT_CANDIDATES : BOOLEAN, BLACKLIST_EXCLUDES_WHITELIST_ENTRIES : BOOLEAN,
   EXIT_BANDWIDTH_FRACTION : {1}, PERFORM_IPV6_DIRPORT_CHECKS : {FALSE}]

\* the configuration as the script is shipped
DefaultConfig ==
  [OUTPUT_CANDIDATES |-> FALSE, BLACKLIST_EXCLUDES_WHITELIST_ENTRIES |-> TRUE,
   EXIT_BANDWIDTH_FRACTION |-> 1, PERFORM_IPV6_DIRPORT_CHECKS |-> FALSE]

PERFORM_IPV4_DIRPORT_CHECKS == IF config.OUTPUT_CANDIDATES THEN FALSE ELSE TRUE
\* False as shipped; "If you know IPv6 works for you, set this to True"
PERFORM_IPV6_DIRPORT_CHECKS ==
  IF config.OUTPUT_CANDIDATES THEN FALSE
  ELSE config.PERFORM_IPV6_DIRPORT_CHECKS
INCLUDE_UNLISTED_ENTRIES == IF config.OUTPUT_CANDIDATES THEN TRUE ELSE FALSE
BLACKLIST_EXCLUDES_WHITELIST_ENTRIES ==
  config.BLACKLIST_EXCLUDES_WHITELIST_ENTRIES

\* FALLBACK_PROPORTION_OF_GUARDS is None or _FB_POG = 0.2 = 2/10
FALLBACK_PROPORTION_OF_GUARDS_is_None == config.OUTPUT_CANDIDATES
\* MAX_FALLBACK_COUNT is None or 100
MAX_FALLBACK_COUNT_is_None == config.OUTPUT_CANDIDATES
MAX_FALLBACK_COUNT == 100
MIN_FALLBACK_COUNT == 100
\* 102.4 * 30.0 * 1024.0
MIN_BANDWIDTH == 3145728
CONSENSUS_DOWNLOAD_SPEED_MAX == 15
CONSENSUS_DOWNLOAD_RETRY == TRUE
\* 1.0 as shipped; the model has the whole-number settings
EXIT_BANDWIDTH_FRACTION == config.EXIT_BANDWIDTH_FRACTION

---------------------------------------------------------------------------
(* Candidate: the whitelist and the blacklist *)

has_ipv6(c) == ~IsNone(c.ipv6addr) /\ ~IsNone(c.ipv6orport)

\* self.ipv6addr + ':' + self.ipv6orport
ipv6_of(c) == AddrPort(TheVal(c.ipv6addr), TheVal(c.ipv6orport))

\* The loop of is_in_whitelist from entry i on.  ipv6_bound tells whether the
\* local variable ipv6 has been assigned (line 806) by an earlier entry.
RECURSIVE whitelist_loop(_, _, _, _)
whitelist_loop(c, relaylist, i, ipv6_bound) ==
  IF i > Len(relaylist) THEN Return(FALSE)
  ELSE
    LET entry == relaylist[i]
        has(k) == k \in DOMAIN entry
        dirport == py_int(entry["dirport"])
        orport == py_int(entry["orport"])
        continue == whitelist_loop(c, relaylist, i + 1, ipv6_bound)
    IN IF ~has("id") THEN Raise("KeyError")
       ELSE IF entry["id"] # c.fpr THEN continue
       ELSE IF ~has("ipv4") THEN Raise("KeyError")
       ELSE IF entry["ipv4"] # c.dirip THEN continue
       ELSE IF ~has("dirport") THEN Raise("KeyError")
       ELSE IF dirport.exc # "none" THEN dirport
       ELSE IF dirport.ret # c.dirport THEN continue
       ELSE IF ~has("orport") THEN Raise("KeyError")
       ELSE IF orport.exc # "none" THEN orport
       ELSE IF orport.ret # c.orport THEN continue
       ELSE IF has("ipv6") /\ has_ipv6(c)
            THEN IF entry["ipv6"] # ipv6_of(c)
                 THEN whitelist_loop(c, relaylist, i + 1, TRUE)
                 ELSE Return(TRUE)
       ELSE IF has("ipv6") /\ ~has_ipv6(c) THEN continue
       ELSE IF ~has("ipv6") /\ has_ipv6(c)
            THEN \* the log call reads the local ipv6 (lines 823-827)
                 IF ipv6_bound THEN continue
                 ELSE Raise("UnboundLocalError")
       ELSE Return(TRUE)

\* as is_in_whitelist, were a mismatch to end the search ("return False" for
\* "continue"): only the first entry is looked at
is_in_whitelist_first_entry_only(c, relaylist) ==
  whitelist_loop(c, SubSeq(relaylist, 1, Min(1, Len(relaylist))), 1, FALSE)

is_in_whitelist(c, relaylist) == whitelist_loop(c, relaylist, 1, FALSE)

\* if int(port) == n, where int(port) may raise
port_is(port, n) ==
  LET i == py_int(port)
  IN IF i.exc # "none" THEN i ELSE Return(i.ret = n)

\* as blacklist_key_matches, without the final else of the ipv4 branch: an
\* entry with no port blocks nothing
blacklist_key_matches_no_address_block(c, entry, key) ==
  LET value == entry[key]
      has(k) == k \in DOMAIN entry
  IN IF key = "id" /\ value = c.fpr THEN Return(TRUE)
     ELSE IF key = "ipv4" /\ value = c.dirip
     THEN IF has("dirport") THEN port_is(entry["dirport"], c.dirport)
          ELSE IF has("orport") THEN port_is(entry["orport"], c.orport)
          ELSE Return(FALSE)
     ELSE IF key = "ipv6" /\ has_ipv6(c) /\ value = ipv6_of(c)
     THEN IF has("dirport") THEN port_is(entry["dirport"], c.dirport)
          ELSE Return(TRUE)
     ELSE Return(FALSE)

\* as blacklist_key_matches, with an ipv6 key that also blocks a relay that
\* has no IPv6 address
blacklist_key_matches_ipv6_blocks_ipv4_only(c, entry, key) ==
  LET value == entry[key]
      has(k) == k \in DOMAIN entry
  IN IF key = "id" /\ value = c.fpr THEN Return(TRUE)
     ELSE IF key = "ipv4" /\ value = c.dirip
     THEN IF has("dirport") THEN port_is(entry["dirport"], c.dirport)
          ELSE IF has("orport") THEN port_is(entry["orport"], c.orport)
          ELSE Return(TRUE)
     ELSE IF key = "ipv6" /\ (has_ipv6(c) => value = ipv6_of(c))
     THEN IF has("dirport") THEN port_is(entry["dirport"], c.dirport)
          ELSE Return(TRUE)
     ELSE Return(FALSE)

\* one pass of "for key in entry" of is_in_blacklist: Return(TRUE) where it
\* returns True, Return(FALSE) where the loop goes on, and the exception of
\* an int() that raises
blacklist_key_matches(c, entry, key) ==
  LET value == entry[key]
      has(k) == k \in DOMAIN entry
  IN IF key = "id" /\ value = c.fpr THEN Return(TRUE)
     ELSE IF key = "ipv4" /\ value = c.dirip
     THEN IF has("dirport") THEN port_is(entry["dirport"], c.dirport)
          ELSE IF has("orport") THEN port_is(entry["orport"], c.orport)
          ELSE Return(TRUE)
     ELSE IF key = "ipv6" /\ has_ipv6(c) /\ value = ipv6_of(c)
     THEN IF has("dirport") THEN port_is(entry["dirport"], c.dirport)
          ELSE Return(TRUE)
     ELSE Return(FALSE)

\* The keys of a list entry in the order they are set: load_relaylist sets
\* ipv4 and dirport first and then the key=value items, which a line in the
\* layout of its docstring has in the order orport, id, ipv6.
EntryKeys == <<"ipv4", "dirport", "orport", "id", "ipv6">>

EntryKeyOrder == key_orders(EntryKeys)

\* the keys of a list entry as "for key in entry" gives them
entry_keys(entry) == EntryKeyOrder[key_set_number(EntryKeys, DOMAIN entry)]

\* the loops "for entry in relaylist: for key in entry" from the entry i and
\* the keys of it that are left: the first pass that returns or raises ends
\* the call
RECURSIVE blacklist_loop(_, _, _, _)
blacklist_loop(c, relaylist, i, keys) ==
  IF i > Len(relaylist) THEN Return(FALSE)
  ELSE IF keys = <<>>
       THEN IF i = Len(relaylist) THEN Return(FALSE)
            ELSE blacklist_loop(c, relaylist, i + 1,
                                entry_keys(relaylist[i + 1]))
  ELSE LET pass == blacklist_key_matches(c, relaylist[i], Head(keys))
       IN IF pass.exc # "none" \/ pass.ret THEN pass
          ELSE blacklist_loop(c, relaylist, i, Tail(keys))

is_in_blacklist(c, relaylist) ==
  IF relaylist = <<>> THEN Return(FALSE)
  ELSE blacklist_loop(c, relaylist, 1, entry_keys(relaylist[1]))

---------------------------------------------------------------------------
(* CandidateList.apply_filter_lists *)

\* as filter_includes, with a relay of neither list always included
filter_includes_unlisted(in_whitelist, in_blacklist) ==
  IF in_whitelist /\ in_blacklist
  THEN ~BLACKLIST_EXCLUDES_WHITELIST_ENTRIES
  ELSE IF in_whitelist THEN TRUE
  ELSE IF in_blacklist THEN FALSE
  ELSE TRUE

\* the if/elif chain of lines 1208-1232: is f appended to filtered_fallbacks?
filter_includes(in_whitelist, in_blacklist) ==
  IF in_whitelist /\ in_blacklist
  THEN IF BLACKLIST_EXCLUDES_WHITELIST_ENTRIES THEN FALSE ELSE TRUE
  ELSE IF in_whitelist THEN TRUE
  ELSE IF in_blacklist THEN FALSE
  ELSE IF INCLUDE_UNLISTED_ENTRIES THEN TRUE ELSE FALSE

\* as filter_loop, with a relay of both lists left out of the list and of
\* the count
RECURSIVE filter_loop_both_lists_uncounted(_, _, _, _, _, _)
filter_loop_both_lists_uncounted(fbs, wl, bl, i, excluded, filtered) ==
  IF i > Len(fbs)
  THEN Return([fallbacks |-> filtered, excluded_count |-> excluded])
  ELSE LET f == fbs[i]
           in_whitelist == is_in_whitelist(f, wl)
           in_blacklist == is_in_blacklist(f, bl)
       IN IF in_whitelist.exc # "none" THEN in_whitelist
          ELSE IF in_blacklist.exc # "none" THEN in_blacklist
          ELSE IF filter_includes(in_whitelist.ret, in_blacklist.ret)
               THEN filter_loop_both_lists_uncounted(
                      fbs, wl, bl, i + 1, excluded, Append(filtered, f))
               ELSE filter_loop_both_lists_uncounted(
                      fbs, wl, bl, i + 1,
                      IF in_whitelist.ret /\ in_blacklist.ret THEN excluded
                      ELSE excluded + 1,
                      filtered)

\* the loop "for f in self.fallbacks" from position i on, with the
\* excluded_count and the filtered_fallbacks built so far
RECURSIVE filter_loop(_, _, _, _, _, _)
filter_loop(fbs, wl, bl, i, excluded_count, filtered_fallbacks) ==
  IF i > Len(fbs)
  THEN Return([fallbacks |-> filtered_fallbacks,
               excluded_count |-> excluded_count])
  ELSE LET f == fbs[i]
           in_whitelist == is_in_whitelist(f, wl)
           in_blacklist == is_in_blacklist(f, bl)
       IN IF in_whitelist.exc # "none" THEN in_whitelist
          ELSE IF in_blacklist.exc # "none" THEN in_blacklist
          ELSE IF filter_includes(in_whitelist.ret, in_blacklist.ret)
               THEN filter_loop(fbs, wl, bl, i + 1, excluded_count,
                                Append(filtered_fallbacks, f))
               ELSE filter_loop(fbs, wl, bl, i + 1, excluded_count + 1,
                                filtered_fallbacks)

\* lines 1384-1390 of list_fallbacks: the copy of the list, then
\* apply_filter_lists on the whitelist and the blacklist as load_relaylist
\* gave them
apply_filter_lists ==
  /\ pc = "filter"
  /\ LET r == filter_loop(fallbacks, whitelist, blacklist, 1, 0, <<>>)
     IN /\ prefilter_fallbacks' = fallbacks
        /\ IF r.exc # "none"
           THEN /\ pc' = "raised"
                /\ result' = r
                /\ UNCHANGED fallbacks
           ELSE /\ pc' = "filtered"
                /\ fallbacks' = r.ret.fallbacks
                /\ result' = Return(r.ret.excluded_count)
  /\ UNCHANGED <<downloads, arg, now,
                 config, doc, idx, candidates, whitelist, blacklist,
                 guard_count, active_count, probes, output>>

---------------------------------------------------------------------------
(* list_fallbacks: the count limits, the summary and the selection loop *)

\* as target_count, with the product rounded up
target_count_rounded_up ==
  IF config.OUTPUT_CANDIDATES THEN guard_count
  ELSE (guard_count * 2 + 9) \div 10

\* int(guard_count * FALLBACK_PROPORTION_OF_GUARDS): 0.2 as a double is just
\* above 1/5, so the product truncates to the integer quotient by 5
target_count ==
  IF FALLBACK_PROPORTION_OF_GUARDS_is_None THEN guard_count
  ELSE (guard_count * 2) \div 10

max_count ==
  IF MAX_FALLBACK_COUNT_is_None THEN target_count
  ELSE Min(target_count, MAX_FALLBACK_COUNT)

\* the result of the check taken from the first download of each family
fallback_consensus_dl_check_first_attempt(c, failed) ==
  LET ipv4_failed == IF PERFORM_IPV4_DIRPORT_CHECKS THEN failed[1] ELSE FALSE
      ipv6_failed == IF ~IsNone(c.ipv6addr) /\ PERFORM_IPV6_DIRPORT_CHECKS
                     THEN failed[2] ELSE FALSE
  IN (~ipv4_failed) /\ (~ipv6_failed)

\* one call of fallback_consensus_dl_speed(dirip, dirport, nickname,
\* max_time) and the download_failed it returned
Download(dirip, dirport, nickname, max_time, download_failed) ==
  [dirip |-> dirip, dirport |-> dirport, nickname |-> nickname,
   max_time |-> max_time, download_failed |-> download_failed]

\* the calls of fallback_consensus_dl_speed that fallback_consensus_dl_check
\* makes, in order, with failed[k] as below
dl_speed_calls(c, failed) ==
  LET ipv4(k) == <<Download(c.dirip, c.dirport, c.data["nickname"],
                            CONSENSUS_DOWNLOAD_SPEED_MAX, failed[k])>>
      ipv6(k) == <<Download(TheVal(c.ipv6addr), c.dirport, c.data["nickname"],
                            CONSENSUS_DOWNLOAD_SPEED_MAX, failed[k])>>
      check_ipv6 == ~IsNone(c.ipv6addr) /\ PERFORM_IPV6_DIRPORT_CHECKS
  IN (IF PERFORM_IPV4_DIRPORT_CHECKS THEN ipv4(1) ELSE <<>>)
       \o (IF check_ipv6 THEN ipv6(2) ELSE <<>>)
       \o (IF PERFORM_IPV4_DIRPORT_CHECKS /\ failed[1]
                /\ CONSENSUS_DOWNLOAD_RETRY THEN ipv4(3) ELSE <<>>)
       \o (IF check_ipv6 /\ failed[2] /\ CONSENSUS_DOWNLOAD_RETRY
           THEN ipv6(4) ELSE <<>>)

\* Candidate.fallback_consensus_dl_check.  failed[k] is what the k-th possible
\* call of fallback_consensus_dl_speed returns (download_failed): IPv4, IPv6,
\* IPv4 again, IPv6 again.
fallback_consensus_dl_check(c, failed) ==
  LET ipv4_failed_1 == IF PERFORM_IPV4_DIRPORT_CHECKS THEN failed[1] ELSE FALSE
      ipv6_failed_1 == IF ~IsNone(c.ipv6addr) /\ PERFORM_IPV6_DIRPORT_CHECKS
                       THEN failed[2] ELSE FALSE
      ipv4_failed == IF PERFORM_IPV4_DIRPORT_CHECKS /\ ipv4_failed_1
                          /\ CONSENSUS_DOWNLOAD_RETRY
                     THEN failed[3] ELSE ipv4_failed_1
      ipv6_failed == IF ~IsNone(c.ipv6addr) /\ PERFORM_IPV6_DIRPORT_CHECKS
                          /\ ipv6_failed_1 /\ CONSENSUS_DOWNLOAD_RETRY
                     THEN failed[4] ELSE ipv6_failed_1
  IN (~ipv4_failed) /\ (~ipv6_failed)

\* one printed item: the summary, the "no fallbacks" comment, the fetch
\* sources, or the line of one relay (commented out unless active)
Item(kind, final_count, error, fpr, active) ==
  [kind |-> kind, final_count |-> final_count, error |-> error, fpr |-> fpr,
   active |-> active]

\* CandidateList.summarise_fallbacks: the "Final Count" it reports and whether
\* the #error line is part of the summary
summarise_fallbacks ==
  LET fallback_count == Len(fallbacks)
  IN Item("summary", fallback_count, fallback_count < MIN_FALLBACK_COUNT,
          "", FALSE)

\* lines 1406-1415: the summary (or the comment that stands for it), the
\* fetch sources, and active_count = 0
summarise ==
  /\ pc = "summarise"
  /\ output' = output
       \o <<IF Len(fallbacks) > 0 THEN summarise_fallbacks
            ELSE Item("no_fallbacks", 0, FALSE, "", FALSE)>>
       \o <<Item("fetch_sources", 0, FALSE, "", FALSE)>>
  /\ active_count' = 0
  /\ idx' = 1
  /\ pc' = "select"
  /\ UNCHANGED <<downloads, arg, now,
                 config, doc, candidates, fallbacks, whitelist, blacklist,
                 result, guard_count, prefilter_fallbacks, probes>>

\* one pass of the loop of lines 1416-1425 over candidates.fallbacks
select_relay ==
  /\ pc = "select"
  /\ idx <= Len(fallbacks)
  /\ \E failed \in [1..4 -> BOOLEAN] :
       LET x == fallbacks[idx]
           dl_speed_ok == fallback_consensus_dl_check(x, failed)
           counted == IF dl_speed_ok THEN active_count + 1 ELSE active_count
       IN /\ probes' = Append(probes, dl_speed_ok)
          /\ downloads' = Append(downloads, dl_speed_calls(x, failed))
          /\ output' = Append(output,
                              Item("fallback", 0, FALSE, x.fpr, dl_speed_ok))
          /\ active_count' = counted
          /\ idx' = idx + 1
          /\ pc' = IF dl_speed_ok /\ counted >= max_count THEN "done"
                   ELSE "select"
  /\ UNCHANGED <<arg, now,
                 config, doc, candidates, fallbacks, whitelist, blacklist,
                 result, guard_count, prefilter_fallbacks>>

\* the loop has gone through the whole list
select_exhausted ==
  /\ pc = "select"
  /\ idx > Len(fallbacks)
  /\ pc' = "done"
  /\ UNCHANGED <<downloads, arg, now,
                 config, doc, idx, candidates, fallbacks, whitelist,
                 blacklist, result, guard_count, active_count,
                 prefilter_fallbacks, probes, output>>

---------------------------------------------------------------------------
(* CandidateList: ingestion of the details document *)

EmptyDict == [x \in {} |-> 0]

\* one pass of "for r in d['relays']: self._add_relay(r)"
_add_relay ==
  /\ pc = "add_details"
  /\ idx <= Len(doc)
  /\ LET details == doc[idx]
         c == Candidate(details)
     IN IF "dir_address" \notin DOMAIN details
        THEN /\ idx' = idx + 1
             /\ UNCHANGED <<pc, candidates, result>>
        ELSE IF c.exc # "none"
        THEN \* nothing catches it: the exception ends list_fallbacks
             /\ pc' = "raised"
             /\ result' = c
             /\ UNCHANGED <<idx, candidates>>
        ELSE /\ candidates' = SetKey(candidates, c.ret.fpr, c.ret)
             /\ idx' = idx + 1
             /\ UNCHANGED <<pc, result>>
  /\ UNCHANGED <<downloads, arg, now,
                 config, doc, fallbacks, whitelist, blacklist, guard_count,
                 active_count, prefilter_fallbacks, probes, output>>

\* the loop of _add_details is over: add_relays goes on to _add_uptimes
_add_details_done ==
  /\ pc = "add_details"
  /\ idx > Len(doc)
  /\ pc' = "fetch_uptime"
  /\ UNCHANGED <<downloads, arg, now,
                 config, doc, idx, candidates, fallbacks, whitelist,
                 blacklist, result, guard_count, active_count,
                 prefilter_fallbacks, probes, output>>

---------------------------------------------------------------------------
(* The list matcher on its own: one relay against one list *)

\* the relay of the call
relay == fallbacks[1]

call_is_in_whitelist ==
  /\ pc = "call"
  /\ result' = is_in_whitelist(relay, whitelist)
  /\ pc' = "returned"
  /\ UNCHANGED <<downloads, arg, now,
                 config, doc, idx, candidates, fallbacks, whitelist,
                 blacklist, guard_count, active_count, prefilter_fallbacks,
                 probes, output>>

call_is_in_blacklist ==
  /\ pc = "call"
  /\ result' = is_in_blacklist(relay, blacklist)
  /\ pc' = "returned"
  /\ UNCHANGED <<downloads, arg, now,
                 config, doc, idx, candidates, fallbacks, whitelist,
                 blacklist, guard_count, active_count, prefilter_fallbacks,
                 probes, output>>

---------------------------------------------------------------------------
(* The inputs of the runs *)

MaxDoc == 3
MaxWhitelist == 2
MaxBlacklist == 2
MaxFilterRelays == 2
MaxFilterList == 2
MaxFallbacks == 4
MaxGuards == 25

\* the lists of up to n members of S
ListsUpTo(S, n) == UNION {[1..k -> S] : k \in 0..n}

\* the records of a details document: relay 1 in every form, relay 2
\* complete or without its nickname
IngestDetails ==
  DetailsOf(1) \cup {GoodDetails(2), DropKey(GoodDetails(2), "nickname")}

\* the relays the lists are tried on
MatchRelays ==
  {Candidate(RelayDetails(f, i, dirport, orport, v6)).ret :
     f \in 1..2, i \in 1..2, dirport \in {DirPortStr, AltDirPortStr},
     orport \in {ORPortStr, AltORPortStr}, v6 \in BOOLEAN}

WhitelistKeys == {"id", "ipv4", "dirport", "orport"}

\* the whitelist entry written for the relay c
EntryFor(c) ==
  [id |-> c.fpr, ipv4 |-> c.dirip,
   dirport |-> IF c.dirport = 80 THEN DirPortStr ELSE AltDirPortStr,
   orport |-> IF c.orport = 9001 THEN ORPortStr ELSE AltORPortStr]

\* the entries of the lines "1.2.3.1: orport=9001 id=F1" and
\* "1.2.3.1:80 orport= id=F1": a port that is the empty string
EmptyPortEntries ==
  {[id |-> Fingerprints[1], ipv4 |-> IPv4Of(1), dirport |-> <<>>,
    orport |-> ORPortStr],
   [id |-> Fingerprints[1], ipv4 |-> IPv4Of(1), dirport |-> DirPortStr,
    orport |-> <<>>]}

\* the entries of a whitelist file: complete ones, with or without ipv6,
\* ones that lack a key, and ones with an empty port
FullEntries ==
  {[id |-> Fingerprints[f], ipv4 |-> IPv4Of(i), dirport |-> dirport,
    orport |-> orport] :
     f \in 1..2, i \in 1..2, dirport \in {DirPortStr, AltDirPortStr},
     orport \in {ORPortStr, AltORPortStr}}

WhitelistEntries ==
  FullEntries
    \cup {SetKey(e, "ipv6", AddrPort(IPv6Of(1), ORPortStr)) : e \in FullEntries}
    \cup {DropKey([id |-> Fingerprints[1], ipv4 |-> IPv4Of(1),
                   dirport |-> DirPortStr, orport |-> ORPortStr], k) :
            k \in WhitelistKeys}
    \cup EmptyPortEntries

\* the entries of a blacklist file: any set of keys, and the entries of the
\* lines "1.2.3.1:" and "1.2.3.1: id=F1", whose dirport is the empty string
BlacklistEntries ==
  LET all == [id |-> Fingerprints[1], ipv4 |-> IPv4Of(1),
              dirport |-> DirPortStr, orport |-> ORPortStr,
              ipv6 |-> AddrPort(IPv6Of(1), ORPortStr)]
  IN {[k \in keys |-> all[k]] : keys \in SUBSET DOMAIN all}
       \cup {[ipv4 |-> IPv4Of(1), dirport |-> <<>>],
             [ipv4 |-> IPv4Of(1), dirport |-> <<>>, id |-> Fingerprints[1]]}

\* the filter stage: three relays, the whitelist entries written for them,
\* and three blacklist entries
FilterRelays ==
  {Candidate(GoodDetails(1)).ret, Candidate(Ipv6Details(1)).ret,
   Candidate(GoodDetails(2)).ret}

FilterWhitelistEntries ==
  {EntryFor(Candidate(GoodDetails(1)).ret),
   SetKey(EntryFor(Candidate(GoodDetails(1)).ret), "ipv6",
          AddrPort(IPv6Of(1), ORPortStr)),
   EntryFor(Candidate(GoodDetails(2)).ret)}

FilterBlacklistEntries ==
  {[id |-> Fingerprints[1]],
   [ipv4 |-> IPv4Of(2)],
   [ipv4 |-> IPv4Of(1), dirport |-> AltDirPortStr]}

\* the guard counts of a consensus: the small ones, where the proportion of
\* guards sets the limit, and one past the point where MAX_FALLBACK_COUNT does
GuardCounts == (0..MaxGuards) \cup {5 * MAX_FALLBACK_COUNT + 5}

\* the list the selection loop runs over: relays 1..n with their measured
\* bandwidth set, highest first
SelectionList(n) ==
  [i \in 1..n |->
     LET c == Candidate(GoodDetails(i)).ret
     IN [c EXCEPT !.data =
           SetKey(c.data, "measured_bandwidth", MIN_BANDWIDTH + 9 - i)]]

---------------------------------------------------------------------------
(* The specifications *)

\* add_relays on a details document
InitIngest ==
  /\ config = DefaultConfig
  /\ pc = "add_details"
  /\ doc \in ListsUpTo(IngestDetails, MaxDoc)
  /\ idx = 1
  /\ candidates = EmptyDict
  /\ fallbacks = <<>>
  /\ whitelist = <<>>
  /\ blacklist = <<>>
  /\ result = Return(FALSE)
  /\ guard_count = 0
  /\ active_count = 0
  /\ prefilter_fallbacks = <<>>
  /\ probes = <<>>
  /\ output = <<>>
  /\ arg = None
  /\ now = StartOfRun
  /\ downloads = <<>>

NextIngest == _add_relay \/ _add_details_done

SpecIngest == InitIngest /\ [][NextIngest]_vars

\* is_in_whitelist of one relay
InitWhitelist ==
  /\ config = DefaultConfig
  /\ pc = "call"
  /\ doc = <<>>
  /\ idx = 1
  /\ candidates = EmptyDict
  /\ fallbacks \in [1..1 -> MatchRelays]
  /\ whitelist \in ListsUpTo(WhitelistEntries, MaxWhitelist)
  /\ blacklist = <<>>
  /\ result = Return(FALSE)
  /\ guard_count = 0
  /\ active_count = 0
  /\ prefilter_fallbacks = <<>>
  /\ probes = <<>>
  /\ output = <<>>
  /\ arg = None
  /\ now = StartOfRun
  /\ downloads = <<>>

SpecWhitelist == InitWhitelist /\ [][call_is_in_whitelist]_vars

\* is_in_blacklist of one relay
InitBlacklist ==
  /\ config = DefaultConfig
  /\ pc = "call"
  /\ doc = <<>>
  /\ idx = 1
  /\ candidates = EmptyDict
  /\ fallbacks \in [1..1 -> MatchRelays]
  /\ whitelist = <<>>
  /\ blacklist \in ListsUpTo(BlacklistEntries, MaxBlacklist)
  /\ result = Return(FALSE)
  /\ guard_count = 0
  /\ active_count = 0
  /\ prefilter_fallbacks = <<>>
  /\ probes = <<>>
  /\ output = <<>>
  /\ arg = None
  /\ now = StartOfRun
  /\ downloads = <<>>

SpecBlacklist == InitBlacklist /\ [][call_is_in_blacklist]_vars

\* list_fallbacks from the filter stage (line 1384), under every configuration
InitFilter ==
  /\ config \in Configs
  /\ pc = "filter"
  /\ doc = <<>>
  /\ idx = 1
  /\ candidates = EmptyDict
  /\ fallbacks \in ListsUpTo(FilterRelays, MaxFilterRelays)
  /\ whitelist \in ListsUpTo(FilterWhitelistEntries, MaxFilterList)
  /\ blacklist \in ListsUpTo(FilterBlacklistEntries, MaxFilterList)
  /\ result = Return(FALSE)
  /\ guard_count = 0
  /\ active_count = 0
  /\ prefilter_fallbacks = <<>>
  /\ probes = <<>>
  /\ output = <<>>
  /\ arg = None
  /\ now = StartOfRun
  /\ downloads = <<>>

SpecFilter == InitFilter /\ [][apply_filter_lists]_vars

\* list_fallbacks from the summary (line 1406) on: the pruned list, sorted by
\* measured bandwidth, and the guard count of the document
InitSelect ==
  /\ config \in {c \in Configs : c.BLACKLIST_EXCLUDES_WHITELIST_ENTRIES}
  /\ pc = "summarise"
  /\ doc = <<>>
  /\ idx = 1
  /\ candidates = EmptyDict
  /\ fallbacks \in {SelectionList(n) : n \in 0..MaxFallbacks}
  /\ whitelist = <<>>
  /\ blacklist = <<>>
  /\ result = Return(FALSE)
  /\ guard_count \in GuardCounts
  /\ active_count = 0
  /\ prefilter_fallbacks = <<>>
  /\ probes = <<>>
  /\ output = <<>>
  /\ arg = None
  /\ now = StartOfRun
  /\ downloads = <<>>

NextSelect == summarise \/ select_relay \/ select_exhausted

SpecSelect == InitSelect /\ [][NextSelect]_vars

---------------------------------------------------------------------------
(* Candidate: the bandwidth estimate *)

is_exit(c) == \E i \in 1..Len(c.data["flags"]) : c.data["flags"][i] = "Exit"

is_guard(c) == \E i \in 1..Len(c.data["flags"]) : c.data["flags"][i] = "Guard"

is_running(c) ==
  \E i \in 1..Len(c.data["flags"]) : c.data["flags"][i] = "Running"

\* advertised_bandwidth / consensus_weight on two ints: Python 2 gives the
\* quotient rounded down, and ZeroDivisionError for a consensus weight of 0
cw_to_bw_factor(c) ==
  IF c.data["consensus_weight"] = 0 THEN Raise("ZeroDivisionError")
  ELSE Return(c.data["advertised_bandwidth"] \div c.data["consensus_weight"])

\* the estimate without the limit of the advertised bandwidth
measured_bandwidth_uncapped(c, median_cw_to_bw_factor) ==
  LET cw_to_bw == IF is_exit(c)
                  THEN median_cw_to_bw_factor * EXIT_BANDWIDTH_FRACTION
                  ELSE median_cw_to_bw_factor
  IN c.data["consensus_weight"] * cw_to_bw

measured_bandwidth(c, median_cw_to_bw_factor) ==
  LET cw_to_bw == IF is_exit(c)
                  THEN median_cw_to_bw_factor * EXIT_BANDWIDTH_FRACTION
                  ELSE median_cw_to_bw_factor
      measured == c.data["consensus_weight"] * cw_to_bw
  IN IF c.data["advertised_bandwidth"] # 0
     THEN Min(measured, c.data["advertised_bandwidth"])
     ELSE measured

\* f with _data['measured_bandwidth'] set
with_measured_bandwidth(c, median_cw_to_bw_factor) ==
  [c EXCEPT !.data =
     SetKey(c.data, "measured_bandwidth",
            measured_bandwidth(c, median_cw_to_bw_factor))]

\* Candidate.set_measured_bandwidth on the relay of the call
set_measured_bandwidth ==
  /\ pc = "set_measured"
  /\ fallbacks' = <<with_measured_bandwidth(fallbacks[1], arg)>>
  /\ result' = Return(None)
  /\ pc' = "returned"
  /\ UNCHANGED <<downloads, arg, now,
                 config, doc, idx, candidates, whitelist, blacklist,
                 guard_count, active_count, prefilter_fallbacks, probes,
                 output>>

MaxFactor == 4
MaxExitFraction == 2

\* relay f with the consensus weight cw, the advertised bandwidth adv (None:
\* the document does not give one) and the Exit flag or not
BandwidthDetails(f, cw, adv, exit) ==
  LET d1 == SetKey(GoodDetails(f), "consensus_weight", cw)
      d2 == IF IsNone(adv) THEN d1
            ELSE SetKey(d1, "advertised_bandwidth", TheVal(adv))
  IN IF exit
     THEN SetKey(d2, "flags", <<"Exit", "Guard", "Running", "V2Dir">>)
     ELSE d2

MeasuredRelays ==
  {Candidate(BandwidthDetails(1, cw, adv, exit)).ret :
     cw \in {1, 3}, adv \in {None, Some(0), Some(2), Some(7)},
     exit \in BOOLEAN}

\* set_measured_bandwidth of one relay, for a median factor and a setting of
\* EXIT_BANDWIDTH_FRACTION
InitMeasured ==
  /\ config \in {[DefaultConfig EXCEPT !.EXIT_BANDWIDTH_FRACTION = x] :
                   x \in 0..MaxExitFraction}
  /\ pc = "set_measured"
  /\ doc = <<>>
  /\ idx = 1
  /\ candidates = EmptyDict
  /\ fallbacks \in [1..1 -> MeasuredRelays]
  /\ whitelist = <<>>
  /\ blacklist = <<>>
  /\ result = Return(FALSE)
  /\ guard_count = 0
  /\ active_count = 0
  /\ prefilter_fallbacks = <<>>
  /\ probes = <<>>
  /\ output = <<>>
  /\ arg \in 0..MaxFactor
  /\ now = StartOfRun
  /\ downloads = <<>>

SpecMeasured == InitMeasured /\ [][set_measured_bandwidth]_vars

---------------------------------------------------------------------------
(* CandidateList: the median factor and the bandwidth of every relay *)

\* self.fallbacks.sort(key=lambda x: self[x].cw_to_bw_factor()): the key of a
\* member x is looked up as self[x].  The keys of the CandidateList are
\* fingerprints, strings, and x is a Candidate, which is equal to no string:
\* the lookup raises KeyError at the first member, and the list is as it was.
\* An empty list has no key to compute.
sort_fallbacks_by_cw_to_bw_factor(fbs) ==
  IF Len(fbs) = 0 THEN Return(fbs) ELSE Raise("KeyError")

\* the while loop of fallback_median, from median_position on
RECURSIVE median_with_advertised_bandwidth(_, _)
median_with_advertised_bandwidth(fbs, median_position) ==
  IF fbs[median_position].data["advertised_bandwidth"] # 0
  THEN Some(fbs[median_position])
  ELSE IF median_position + 1 >= Len(fbs) + 1 THEN None
  ELSE median_with_advertised_bandwidth(fbs, median_position + 1)

\* CandidateList.fallback_median: the low median of the list, or None.  The
\* positions of the list count from 1 here and from 0 in the script.
fallback_median(fbs, require_advertised_bandwidth) ==
  IF Len(fbs) > 0
  THEN LET median_position == ((Len(fbs) - 1) \div 2) + 1
       IN IF ~require_advertised_bandwidth THEN Some(fbs[median_position])
          ELSE median_with_advertised_bandwidth(fbs, median_position)
  ELSE None

\* CandidateList.calculate_measured_bandwidth
calculate_measured_bandwidth ==
  /\ pc = "calculate"
  /\ LET sorted_fallbacks == sort_fallbacks_by_cw_to_bw_factor(fallbacks)
         median_fallback == fallback_median(sorted_fallbacks.ret, TRUE)
         median_cw_to_bw_factor == cw_to_bw_factor(TheVal(median_fallback))
     IN IF sorted_fallbacks.exc # "none"
        THEN /\ result' = sorted_fallbacks
             /\ pc' = "raised"
             /\ UNCHANGED fallbacks
        ELSE IF IsNone(median_fallback)
        THEN \* None has no cw_to_bw_factor
             /\ result' = Raise("AttributeError")
             /\ pc' = "raised"
             /\ fallbacks' = sorted_fallbacks.ret
        ELSE IF median_cw_to_bw_factor.exc # "none"
        THEN /\ result' = median_cw_to_bw_factor
             /\ pc' = "raised"
             /\ fallbacks' = sorted_fallbacks.ret
        ELSE /\ result' = Return(None)
             /\ pc' = "measured"
             /\ fallbacks' =
                  [i \in 1..Len(sorted_fallbacks.ret) |->
                     with_measured_bandwidth(sorted_fallbacks.ret[i],
                                             median_cw_to_bw_factor.ret)]
  /\ UNCHANGED <<downloads, arg, now,
                 config, doc, idx, candidates, whitelist, blacklist,
                 guard_count, active_count, prefilter_fallbacks, probes,
                 output>>

\* CandidateList.fallback_median, called on a list as it is
call_fallback_median ==
  /\ pc = "median"
  /\ result' = Return(fallback_median(fallbacks, arg))
  /\ pc' = "returned"
  /\ UNCHANGED <<downloads, arg, now,
                 config, doc, idx, candidates, fallbacks, whitelist,
                 blacklist, guard_count, active_count, prefilter_fallbacks,
                 probes, output>>

MaxBandwidthList == 3

\* (consensus weight, advertised bandwidth) of the relays of the lists
BandwidthProfiles == {<<1, 0>>, <<1, 2>>, <<1, 7>>, <<3, 0>>, <<3, 7>>}

\* the candidate lists of the bandwidth stage: relay i of a list has the
\* fingerprint Fingerprints[i]
BandwidthLists ==
  {[i \in 1..Len(l) |->
      Candidate(BandwidthDetails(i, l[i][1], Some(l[i][2]), FALSE)).ret] :
     l \in ListsUpTo(BandwidthProfiles, MaxBandwidthList)}

\* the CandidateList of the relays of the list fbs
DictOf(fbs) ==
  [f \in {fbs[i].fpr : i \in 1..Len(fbs)} |->
     CHOOSE c \in {fbs[i] : i \in 1..Len(fbs)} : c.fpr = f]

\* list_fallbacks at line 1394, and fallback_median on its own
InitBandwidth ==
  /\ config = DefaultConfig
  /\ pc \in {"calculate", "median"}
  /\ doc = <<>>
  /\ idx = 1
  /\ fallbacks \in BandwidthLists
  /\ candidates = DictOf(fallbacks)
  /\ whitelist = <<>>
  /\ blacklist = <<>>
  /\ result = Return(FALSE)
  /\ guard_count = 0
  /\ active_count = 0
  /\ prefilter_fallbacks = fallbacks
  /\ probes = <<>>
  /\ output = <<>>
  /\ arg \in (IF pc = "median" THEN BOOLEAN ELSE {None})
  /\ now = StartOfRun
  /\ downloads = <<>>

NextBandwidth == calculate_measured_bandwidth \/ call_fallback_median

SpecBandwidth == InitBandwidth /\ [][NextBandwidth]_vars

---------------------------------------------------------------------------
(* Candidate: the flag histories of the uptime document *)

ADDRESS_AND_PORT_STABLE_DAYS == 7
CUTOFF_RUNNING == Rat(95, 100)
CUTOFF_V2DIR == Rat(95, 100)
CUTOFF_GUARD == Rat(95, 100)
PERMITTED_BADEXIT == Rat(0, 100)
AGE_ALPHA == Rat(99, 100)
ONIONOO_SCALE_ONE == 999

\* The periods of a history in the order they are set: json.load sets them
\* in the order of the document, and Onionoo writes them in the order of
\* their names, as in the sample of lines 597-630.
PeriodNames ==
  <<"1_month", "1_week", "1_year", "3_days", "3_months", "5_years">>

PeriodKeyOrder == key_orders(PeriodNames)

\* history.keys()
history_keys(history) ==
  PeriodKeyOrder[key_set_number(PeriodNames, DOMAIN history)]

\* periods.sort(key = lambda x: history[x]['interval']): ascending order of
\* the interval, and the sort is stable, so periods of one interval stay in
\* the order that history.keys() gave them
RECURSIVE sort_periods(_, _)
sort_periods(history, periods) ==
  IF periods = <<>> THEN <<>>
  ELSE LET i == CHOOSE k \in 1..Len(periods) :
                  /\ \A j \in 1..Len(periods) :
                       history[periods[k]].interval
                         <= history[periods[j]].interval
                  /\ \A j \in 1..(k - 1) :
                       history[periods[j]].interval
                         > history[periods[k]].interval
       IN <<periods[i]>>
            \o sort_periods(history,
                            SubSeq(periods, 1, i - 1)
                              \o SubSeq(periods, i + 1, Len(periods)))

\* the loop over reversed(h['values']), from the k-th value down: the items
\* appended, and newest after it
RECURSIVE extract_values(_, _, _, _, _, _)
extract_values(values, k, this_ts, newest, interval, utcnow) ==
  IF k = 0 THEN [items |-> <<>>, newest |-> newest]
  ELSE IF this_ts <= newest
  THEN LET rest == extract_values(values, k - 1, this_ts - interval, this_ts,
                                  interval, utcnow)
       IN [items |-> <<[age |-> utcnow - this_ts, length |-> interval,
                        value |-> values[k]]>> \o rest.items,
           newest |-> rest.newest]
  ELSE extract_values(values, k - 1, this_ts - interval, newest, interval,
                      utcnow)

\* the loop over the periods, from the i-th on
RECURSIVE extract_periods(_, _, _, _, _)
extract_periods(history, periods, i, newest, utcnow) ==
  IF i > Len(periods) THEN <<>>
  ELSE LET h == history[periods[i]]
           r == extract_values(h.values, Len(h.values), parse_ts(h.last),
                               newest, h.interval, utcnow)
       IN r.items \o extract_periods(history, periods, i + 1, r.newest, utcnow)

\* Candidate._extract_generic_history: the list of (age, length, value), one
\* per sample taken.  utcnow is the clock at the call, in whole seconds: the
\* timestamps of the document are whole seconds, and the age is rounded down
\* to them.
_extract_generic_history(history, utcnow) ==
  extract_periods(history, sort_periods(history, history_keys(history)), 1,
                  utcnow, utcnow)

RECURSIVE Power(_, _)
Power(b, e) == IF e = 0 THEN 1 ELSE b * Power(b, e - 1)

\* the items of a history that count: not older than the stable period, and
\* with a value
counted_items(generic_history) ==
  SelectSeq(generic_history,
            LAMBDA i : /\ ~(i.age > ADDRESS_AND_PORT_STABLE_DAYS * 24 * 3600)
                       /\ ~IsNone(i.value))

RECURSIVE SumSeq(_)
SumSeq(s) == IF Len(s) = 0 THEN 0 ELSE s[1] + SumSeq(Tail(s))

RECURSIVE GcdSeq(_)
GcdSeq(s) == IF Len(s) = 0 THEN 0 ELSE Gcd(s[1], GcdSeq(Tail(s)))

RECURSIVE MaxSeq(_)
MaxSeq(s) ==
  IF Len(s) = 0 THEN 0
  ELSE IF s[1] >= MaxSeq(Tail(s)) THEN s[1] ELSE MaxSeq(Tail(s))

\* Candidate._avg_generic_history: the average of the values, each weighted
\* by length * AGE_ALPHA ^ (age in whole days).  The weights are taken times
\* a common factor that makes them whole numbers; the quotient is the same.
_avg_generic_history(generic_history) ==
  LET a == counted_items(generic_history)
      days == [i \in 1..Len(a) |-> a[i].age \div (3600 * 24)]
      oldest == MaxSeq(days)
      unit == GcdSeq([i \in 1..Len(a) |-> a[i].length])
      w == [i \in 1..Len(a) |->
              (a[i].length \div unit) * Power(AGE_ALPHA[1], days[i])
                * Power(AGE_ALPHA[2], oldest - days[i])]
      sv == SumSeq([i \in 1..Len(a) |-> TheVal(a[i].value) * w[i]])
      sw == SumSeq(w)
  IN IF Len(a) = 0 \/ unit = 0 \/ sw = 0 THEN Rat(0, 1) ELSE Rat(sv, sw)

\* add_uptime with an average of zero where there is no BadExit history
add_uptime_absent_as_zero(c, uptime, utcnow) ==
  IF "flags" \notin DOMAIN uptime THEN c
  ELSE IF \E f \in {"Running", "Guard", "V2Dir"} :
            f \notin DOMAIN uptime["flags"]
  THEN c
  ELSE
    LET fraction(f) ==
          LET avg == _avg_generic_history(
                       _extract_generic_history(uptime["flags"][f], utcnow))
          IN Rat(avg[1], avg[2] * ONIONOO_SCALE_ONE)
        c1 == [c EXCEPT !.running = fraction("Running"),
                        !.guard = fraction("Guard"),
                        !.v2dir = fraction("V2Dir")]
        _badexit == IF "BadExit" \in DOMAIN uptime["flags"]
                    THEN Some(fraction("BadExit")) ELSE Some(Rat(0, 1))
    IN [k \in (DOMAIN c1) \cup {"badexit"} |->
          IF k = "badexit" THEN _badexit ELSE c1[k]]

\* add_uptime that goes on without a Guard history, with an average of zero
\* for it
add_uptime_guard_optional(c, uptime, utcnow) ==
  IF "flags" \notin DOMAIN uptime THEN c
  ELSE IF \E f \in {"Running", "V2Dir"} : f \notin DOMAIN uptime["flags"]
  THEN c
  ELSE
    LET fraction(f) ==
          IF f \notin DOMAIN uptime["flags"] THEN Rat(0, 1)
          ELSE LET avg == _avg_generic_history(
                            _extract_generic_history(uptime["flags"][f],
                                                     utcnow))
               IN Rat(avg[1], avg[2] * ONIONOO_SCALE_ONE)
        c1 == [c EXCEPT !.running = fraction("Running"),
                        !.guard = fraction("Guard"),
                        !.v2dir = fraction("V2Dir")]
        _badexit == IF "BadExit" \in DOMAIN uptime["flags"]
                    THEN Some(fraction("BadExit")) ELSE None
    IN [k \in (DOMAIN c1) \cup {"badexit"} |->
          IF k = "badexit" THEN _badexit ELSE c1[k]]

\* Candidate.add_uptime: the relay with the averages of its flag histories
add_uptime(c, uptime, utcnow) ==
  IF "flags" \notin DOMAIN uptime THEN c
  ELSE IF \E f \in {"Running", "Guard", "V2Dir"} :
            f \notin DOMAIN uptime["flags"]
  THEN c
  ELSE
    LET fraction(f) ==
          LET avg == _avg_generic_history(
                       _extract_generic_history(uptime["flags"][f], utcnow))
          IN Rat(avg[1], avg[2] * ONIONOO_SCALE_ONE)
        c1 == [c EXCEPT !.running = fraction("Running"),
                        !.guard = fraction("Guard"),
                        !.v2dir = fraction("V2Dir")]
        _badexit == IF "BadExit" \in DOMAIN uptime["flags"]
                    THEN Some(fraction("BadExit")) ELSE None
    IN [k \in (DOMAIN c1) \cup {"badexit"} |->
          IF k = "badexit" THEN _badexit ELSE c1[k]]

---------------------------------------------------------------------------
(* Candidate.is_candidate and CandidateList.compute_fallbacks *)

\* Candidate.CUTOFF_ADDRESS_AND_PORT_STABLE: the clock when the class is
\* read, less the stable period
CUTOFF_ADDRESS_AND_PORT_STABLE ==
  now - ADDRESS_AND_PORT_STABLE_DAYS * 86400

\* is_candidate without the test of the guard average
is_candidate_no_guard_cutoff(c) ==
  LET must_be_running_now ==
        PERFORM_IPV4_DIRPORT_CHECKS \/ PERFORM_IPV6_DIRPORT_CHECKS
  IN IF must_be_running_now /\ ~is_running(c) THEN Return(FALSE)
     ELSE IF c.data["last_changed_address_or_port"]
               > CUTOFF_ADDRESS_AND_PORT_STABLE
     THEN Return(FALSE)
     ELSE IF rat_less(c.running, CUTOFF_RUNNING) THEN Return(FALSE)
     ELSE IF rat_less(c.v2dir, CUTOFF_V2DIR) THEN Return(FALSE)
     ELSE IF "badexit" \notin DOMAIN c THEN Raise("AttributeError")
     ELSE IF ~IsNone(c.badexit) /\ rat_less(PERMITTED_BADEXIT, TheVal(c.badexit))
     THEN Return(FALSE)
     ELSE IF \/ "recommended_version" \notin DOMAIN c.data
             \/ ~c.data["recommended_version"]
     THEN Return(FALSE)
     ELSE IF \/ "consensus_weight" \notin DOMAIN c.data
             \/ c.data["consensus_weight"] < 1
     THEN Return(FALSE)
     ELSE Return(TRUE)

\* a relay that was given no uptime has no _badexit attribute; reading it
\* would raise AttributeError
is_candidate(c) ==
  LET must_be_running_now ==
        PERFORM_IPV4_DIRPORT_CHECKS \/ PERFORM_IPV6_DIRPORT_CHECKS
  IN IF must_be_running_now /\ ~is_running(c) THEN Return(FALSE)
     ELSE IF c.data["last_changed_address_or_port"]
               > CUTOFF_ADDRESS_AND_PORT_STABLE
     THEN Return(FALSE)
     ELSE IF rat_less(c.running, CUTOFF_RUNNING) THEN Return(FALSE)
     ELSE IF rat_less(c.v2dir, CUTOFF_V2DIR) THEN Return(FALSE)
     ELSE IF "badexit" \notin DOMAIN c THEN Raise("AttributeError")
     ELSE IF ~IsNone(c.badexit) /\ rat_less(PERMITTED_BADEXIT, TheVal(c.badexit))
     THEN Return(FALSE)
     ELSE IF \/ "recommended_version" \notin DOMAIN c.data
             \/ ~c.data["recommended_version"]
     THEN Return(FALSE)
     ELSE IF rat_less(c.guard, CUTOFF_GUARD) THEN Return(FALSE)
     ELSE IF \/ "consensus_weight" \notin DOMAIN c.data
             \/ c.data["consensus_weight"] < 1
     THEN Return(FALSE)
     ELSE Return(TRUE)

\* Candidate.is_candidate on the relay of the call
call_is_candidate ==
  /\ pc = "is_candidate"
  /\ result' = is_candidate(relay)
  /\ pc' = "returned"
  /\ UNCHANGED <<downloads, arg, now,
                 config, doc, idx, candidates, fallbacks, whitelist,
                 blacklist, guard_count, active_count, prefilter_fallbacks,
                 probes, output>>

\* one pass of "for r in d['relays']: self._add_uptime(r)"
_add_uptime ==
  /\ pc = "add_uptimes"
  /\ idx <= Len(doc)
  /\ LET uptime == doc[idx]
     IN IF "fingerprint" \notin DOMAIN uptime
        THEN /\ pc' = "raised"
             /\ result' = Raise("Exception")
             /\ UNCHANGED <<idx, candidates>>
        ELSE IF uptime["fingerprint"] \notin DOMAIN candidates
        THEN /\ idx' = idx + 1
             /\ UNCHANGED <<pc, candidates, result>>
        ELSE /\ candidates' =
                  [candidates EXCEPT ![uptime["fingerprint"]] =
                     add_uptime(candidates[uptime["fingerprint"]], uptime, now)]
             /\ idx' = idx + 1
             /\ UNCHANGED <<pc, result>>
  /\ UNCHANGED <<downloads, arg, now,
                 config, doc, fallbacks, whitelist, blacklist,
                 guard_count, active_count, prefilter_fallbacks, probes,
                 output>>

\* the loop of _add_uptimes is over: list_fallbacks goes on to count the
\* guards and to compute_fallbacks
_add_uptimes_done ==
  /\ pc = "add_uptimes"
  /\ idx > Len(doc)
  /\ guard_count' =
       Cardinality({f \in DOMAIN candidates : is_guard(candidates[f])})
  /\ pc' = "compute"
  /\ UNCHANGED <<downloads, arg, now,
                 config, doc, idx, candidates, fallbacks, whitelist,
                 blacklist, result, active_count, prefilter_fallbacks, probes,
                 output>>

\* CandidateList.compute_fallbacks: the relays that are candidates, in the
\* order of the keys of the dict, which is any order
compute_fallbacks ==
  /\ pc = "compute"
  /\ IF \E f \in DOMAIN candidates : is_candidate(candidates[f]).exc # "none"
     THEN /\ pc' = "raised"
          /\ result' = Raise("AttributeError")
          /\ UNCHANGED fallbacks
     ELSE LET keys == {f \in DOMAIN candidates :
                         is_candidate(candidates[f]).ret}
          IN /\ \E order \in [1..Cardinality(keys) -> keys] :
                  /\ \A i, j \in 1..Cardinality(keys) :
                       i # j => order[i] # order[j]
                  /\ fallbacks' =
                       [i \in 1..Cardinality(keys) |-> candidates[order[i]]]
             /\ pc' = "computed"
             /\ UNCHANGED result
  /\ UNCHANGED <<downloads, arg, now,
                 config, doc, idx, candidates, whitelist, blacklist,
                 guard_count, active_count, prefilter_fallbacks, probes,
                 output>>

---------------------------------------------------------------------------
(* The inputs of the eligibility stage *)

MaxUptimeDoc == 2

\* a details record for is_candidate: with the Running flag or not, changed
\* at the time lc, with recommended_version rv (None: not in the document)
\* and the consensus weight cw
EligibilityDetails(running_now, lc, rv, cw) ==
  LET d1 == [GoodDetails(1) EXCEPT !.last_changed_address_or_port = lc,
                                   !.consensus_weight = cw,
                                   !.flags = IF running_now
                                             THEN <<"Guard", "Running", "V2Dir">>
                                             ELSE <<"Guard", "V2Dir">>]
  IN IF IsNone(rv) THEN DropKey(d1, "recommended_version")
     ELSE [d1 EXCEPT !.recommended_version = TheVal(rv)]

\* the relays as Candidate() leaves them: no uptime yet.  The address was
\* last changed at the cutoff, day 3, or one second later.
NewRelays ==
  {Candidate(EligibilityDetails(running_now, lc, rv, cw)).ret :
     running_now \in BOOLEAN, lc \in {<<3, 0>>, <<3, 1>>},
     rv \in {None, Some(FALSE), Some(TRUE)}, cw \in {0, 1}}

\* the relays is_candidate is asked about: new ones, and ones that were given
\* averages by add_uptime
EligibilityRelays ==
  NewRelays \cup
  {[k \in (DOMAIN c) \cup {"badexit"} |->
      CASE k = "running" -> _running
        [] k = "guard" -> _guard
        [] k = "v2dir" -> _v2dir
        [] k = "badexit" -> _badexit
        [] OTHER -> c[k]] :
     c \in NewRelays,
     _running \in {Rat(94, 100), Rat(95, 100)},
     _guard \in {Rat(94, 100), Rat(95, 100)},
     _v2dir \in {Rat(94, 100), Rat(95, 100)},
     _badexit \in {None, Some(Rat(0, 1)), Some(Rat(1, 999))}}

\* is_candidate of one relay
InitCandidate ==
  /\ config \in {[DefaultConfig EXCEPT !.OUTPUT_CANDIDATES = x] :
                   x \in BOOLEAN}
  /\ pc = "is_candidate"
  /\ doc = <<>>
  /\ idx = 1
  /\ candidates = EmptyDict
  /\ fallbacks \in [1..1 -> EligibilityRelays]
  /\ whitelist = <<>>
  /\ blacklist = <<>>
  /\ result = Return(FALSE)
  /\ guard_count = 0
  /\ active_count = 0
  /\ prefilter_fallbacks = <<>>
  /\ probes = <<>>
  /\ output = <<>>
  /\ arg = None
  /\ now = StartOfRun
  /\ downloads = <<>>

SpecCandidate == InitCandidate /\ [][call_is_candidate]_vars

\* a flag history of one period, "1_week": two hourly samples, the newer one
\* an hour before the start of the run
WeekHistory(older, newer) ==
  [x \in {"1_week"} |->
     [interval |-> 3600, last |-> <<9, 82800>>, first |-> <<9, 79200>>,
      count |-> 2, values |-> <<Some(older), Some(newer)>>]]

HistoryGood == WeekHistory(999, 999)
HistoryLow == WeekHistory(0, 999)
HistoryZero == WeekHistory(0, 0)

\* the uptime record of relay f with the given histories (None: no such
\* history in the record)
UptimeRecord(f, running, guard, v2dir, badexit) ==
  LET given == [Running |-> running, Guard |-> guard, V2Dir |-> v2dir,
                BadExit |-> badexit]
  IN [fingerprint |-> Fingerprints[f],
      flags |-> [k \in {x \in DOMAIN given : ~IsNone(given[x])} |->
                   TheVal(given[k])]]

UptimeRecords ==
  {UptimeRecord(1, Some(r), Some(g), Some(v), b) :
     r \in {HistoryGood, HistoryLow}, g \in {HistoryGood, HistoryLow},
     v \in {HistoryGood, HistoryLow},
     b \in {None, Some(HistoryZero), Some(HistoryGood)}}
  \cup {UptimeRecord(1, None, Some(HistoryGood), Some(HistoryGood), None),
        UptimeRecord(1, Some(HistoryGood), None, Some(HistoryGood), None),
        UptimeRecord(1, Some(HistoryGood), Some(HistoryGood), None, None),
        DropKey(UptimeRecord(1, None, None, None, None), "flags"),
        DropKey(UptimeRecord(1, None, None, None, None), "fingerprint"),
        UptimeRecord(3, Some(HistoryGood), Some(HistoryGood),
                     Some(HistoryGood), None),
        UptimeRecord(2, Some(HistoryGood), Some(HistoryGood),
                     Some(HistoryGood), None)}

\* the CandidateList _add_details leaves for a document of two complete
\* relays
UptimeCandidates ==
  DictOf(<<Candidate(GoodDetails(1)).ret, Candidate(GoodDetails(2)).ret>>)

\* add_relays from the uptime document on, then compute_fallbacks: two relays
\* are in the CandidateList
InitUptime ==
  /\ config = DefaultConfig
  /\ pc = "add_uptimes"
  /\ doc \in ListsUpTo(UptimeRecords, MaxUptimeDoc)
  /\ idx = 1
  /\ candidates = UptimeCandidates
  /\ fallbacks = <<>>
  /\ whitelist = <<>>
  /\ blacklist = <<>>
  /\ result = Return(FALSE)
  /\ guard_count = 0
  /\ active_count = 0
  /\ prefilter_fallbacks = <<>>
  /\ probes = <<>>
  /\ output = <<>>
  /\ arg = None
  /\ now = StartOfRun
  /\ downloads = <<>>

NextUptime == _add_uptime \/ _add_uptimes_done \/ compute_fallbacks

SpecUptime == InitUptime /\ [][NextUptime]_vars

---------------------------------------------------------------------------
(* _extract_generic_history on its own *)

call_extract_generic_history ==
  /\ pc = "extract"
  /\ result' = Return(_extract_generic_history(arg, now))
  /\ pc' = "extracted"
  /\ UNCHANGED <<downloads, arg, now,
                 config, doc, idx, candidates, fallbacks, whitelist,
                 blacklist, guard_count, active_count, prefilter_fallbacks,
                 probes, output>>

MaxSamples == 3

\* the timestamp of the document for the time t
TimestampOf(t) == <<t \div 86400, t % 86400>>

\* a period of n samples of the value v, the newest at the time last
Period(interval, last, n, v) ==
  [interval |-> interval, last |-> TimestampOf(last),
   first |-> TimestampOf(last - (n - 1) * interval), count |-> n,
   values |-> [i \in 1..n |-> Some(v)]]

\* hourly samples up to the start of the run, an hour before or an hour after
WeekPeriods ==
  {Period(3600, StartOfRun - back * 3600, n, 999) :
     back \in {-1, 0, 1}, n \in 0..MaxSamples}

\* two-hourly samples, or hourly ones as in the week, the newest up to
\* three hours before the run
MonthPeriods ==
  {Period(interval, StartOfRun - back * 3600, n, 0) :
     interval \in {3600, 7200}, back \in 0..3, n \in 0..(MaxSamples - 1)}

\* the histories of a flag: the week, the month, or both
Histories ==
  {[x \in {"1_week"} |-> w] : w \in WeekPeriods}
    \cup {[x \in {"1_month"} |-> m] : m \in MonthPeriods}
    \cup {[x \in {"1_week", "1_month"} |-> IF x = "1_week" THEN w ELSE m] :
            w \in WeekPeriods, m \in MonthPeriods}

InitHistory ==
  /\ config = DefaultConfig
  /\ pc = "extract"
  /\ doc = <<>>
  /\ idx = 1
  /\ candidates = EmptyDict
  /\ fallbacks = <<>>
  /\ whitelist = <<>>
  /\ blacklist = <<>>
  /\ result = Return(FALSE)
  /\ guard_count = 0
  /\ active_count = 0
  /\ prefilter_fallbacks = <<>>
  /\ probes = <<>>
  /\ output = <<>>
  /\ arg \in Histories
  /\ now = StartOfRun
  /\ downloads = <<>>

SpecHistory == InitHistory /\ [][call_extract_generic_history]_vars

---------------------------------------------------------------------------
(* Candidate.__init__ on records that differ in their OR addresses *)

new_Candidate ==
  /\ pc = "new"
  /\ result' = Candidate(arg)
  /\ pc' = "constructed"
  /\ UNCHANGED <<downloads, arg, now,
                 config, doc, idx, candidates, fallbacks, whitelist,
                 blacklist, guard_count, active_count, prefilter_fallbacks,
                 probes, output>>

MaxAddresses == 3

\* two ORPorts on the address of the DirPort, an ORPort on another IPv4
\* address, and two IPv6 addresses
ORAddresses ==
  {AddrPort(IPv4Of(1), ORPortStr), AddrPort(IPv4Of(1), AltORPortStr),
   AddrPort(IPv4Of(2), ORPortStr), AddrPort(IPv6Of(1), ORPortStr),
   AddrPort(IPv6Of(2), AltORPortStr)}

ORAddressLists == ListsUpTo(ORAddresses, MaxAddresses)

\* relay 1 with its DirPort on "1.2.3.1" and the OR addresses l
AddressDetails(l) ==
  [RelayDetails(1, 1, DirPortStr, ORPortStr, FALSE)
     EXCEPT !["or_addresses"] = l]

InitAddresses ==
  /\ config = DefaultConfig
  /\ pc = "new"
  /\ doc = <<>>
  /\ idx = 1
  /\ candidates = EmptyDict
  /\ fallbacks = <<>>
  /\ whitelist = <<>>
  /\ blacklist = <<>>
  /\ result = Return(FALSE)
  /\ guard_count = 0
  /\ active_count = 0
  /\ prefilter_fallbacks = <<>>
  /\ probes = <<>>
  /\ output = <<>>
  /\ arg \in {AddressDetails(l) : l \in ORAddressLists}
  /\ now = StartOfRun
  /\ downloads = <<>>

SpecAddresses == InitAddresses /\ [][new_Candidate]_vars

---------------------------------------------------------------------------
(* is_valid_ipv4_address on its own *)

call_is_valid_ipv4_address ==
  /\ pc = "validate"
  /\ result' = Return(is_valid_ipv4_address(arg))
  /\ pc' = "validated"
  /\ UNCHANGED <<downloads, arg, now,
                 config, doc, idx, candidates, fallbacks, whitelist,
                 blacklist, guard_count, active_count, prefilter_fallbacks,
                 probes, output>>

MaxGroups == 5

\* what stands between the periods of an address: nothing, digits in and
\* out of range, digits with leading zeros, a letter
AddressGroups ==
  {<<>>, <<"0">>, <<"1">>, <<"0", "0", "1">>, <<"2", "5", "5">>,
   <<"2", "5", "6">>, <<"a">>}

\* the groups joined by periods
RECURSIVE JoinGroups(_)
JoinGroups(groups) ==
  IF Len(groups) = 1 THEN groups[1]
  ELSE groups[1] \o <<".">> \o JoinGroups(Tail(groups))

AddressStrings ==
  {JoinGroups(g) : g \in UNION {[1..n -> AddressGroups] : n \in 1..MaxGroups}}

InitIPv4 ==
  /\ config = DefaultConfig
  /\ pc = "validate"
  /\ doc = <<>>
  /\ idx = 1
  /\ candidates = EmptyDict
  /\ fallbacks = <<>>
  /\ whitelist = <<>>
  /\ blacklist = <<>>
  /\ result = Return(FALSE)
  /\ guard_count = 0
  /\ active_count = 0
  /\ prefilter_fallbacks = <<>>
  /\ probes = <<>>
  /\ output = <<>>
  /\ arg \in AddressStrings
  /\ now = StartOfRun
  /\ downloads = <<>>

SpecIPv4 == InitIPv4 /\ [][call_is_valid_ipv4_address]_vars

---------------------------------------------------------------------------
(* The selection loop with the IPv4 and the IPv6 check *)

MaxProbed == 3

\* relay i of the sorted list, with an IPv6 address when v6
ProbedRelay(i, v6) ==
  LET c == Candidate(RelayDetails(i, i, DirPortStr, ORPortStr, v6)).ret
  IN [c EXCEPT !.data =
        SetKey(c.data, "measured_bandwidth", MIN_BANDWIDTH + 9 - i)]

\* the lists of relays 1..n, each with or without an IPv6 address
ProbedLists ==
  UNION {{[i \in 1..n |-> ProbedRelay(i, v6[i])] : v6 \in [1..n -> BOOLEAN]} :
           n \in 0..MaxProbed}

\* the settings of the checks: none (OUTPUT_CANDIDATES), IPv4, IPv4 and IPv6
ProbeConfigs ==
  {[DefaultConfig EXCEPT !.OUTPUT_CANDIDATES = oc,
                         !.PERFORM_IPV6_DIRPORT_CHECKS = v6] :
     oc \in BOOLEAN, v6 \in BOOLEAN}

\* a consensus where one fallback is wanted, and one where ten are
ProbeGuardCounts == {5, 50}

InitProbe ==
  /\ config \in ProbeConfigs
  /\ pc = "summarise"
  /\ doc = <<>>
  /\ idx = 1
  /\ candidates = EmptyDict
  /\ fallbacks \in ProbedLists
  /\ whitelist = <<>>
  /\ blacklist = <<>>
  /\ result = Return(FALSE)
  /\ guard_count \in ProbeGuardCounts
  /\ active_count = 0
  /\ prefilter_fallbacks = <<>>
  /\ probes = <<>>
  /\ output = <<>>
  /\ arg = None
  /\ now = StartOfRun
  /\ downloads = <<>>

SpecProbe == InitProbe /\ [][NextSelect]_vars

---------------------------------------------------------------------------
(* CandidateList: pruning and the sort by measured bandwidth *)

\* as above_min_bw_fallbacks, keeping only the relays above MIN_BANDWIDTH
RECURSIVE above_min_bw_fallbacks_strictly_above(_)
above_min_bw_fallbacks_strictly_above(fbs) ==
  IF Len(fbs) = 0 THEN <<>>
  ELSE (IF fbs[1].data["measured_bandwidth"] > MIN_BANDWIDTH
        THEN <<fbs[1]>> ELSE <<>>)
         \o above_min_bw_fallbacks_strictly_above(Tail(fbs))

\* the list remove_low_bandwidth_relays leaves: MIN_BANDWIDTH is not None
RECURSIVE above_min_bw_fallbacks(_)
above_min_bw_fallbacks(fbs) ==
  IF Len(fbs) = 0 THEN <<>>
  ELSE (IF fbs[1].data["measured_bandwidth"] >= MIN_BANDWIDTH
        THEN <<fbs[1]>> ELSE <<>>) \o above_min_bw_fallbacks(Tail(fbs))

\* self.fallbacks.sort(key=lambda x: self[x].self._data['measured_bandwidth'],
\* reverse=True): x is a Candidate and the CandidateList is keyed by
\* fingerprint, so computing the key of the first relay raises KeyError; an
\* empty list has no key to compute
sort_fallbacks_by_measured_bandwidth(fbs) ==
  IF Len(fbs) = 0 THEN Return(fbs) ELSE Raise("KeyError")

remove_low_bandwidth_relays ==
  /\ pc = "remove_low"
  /\ fallbacks' = above_min_bw_fallbacks(fallbacks)
  /\ pc' = "sort"
  /\ UNCHANGED <<downloads, arg, now,
                 config, doc, idx, candidates, whitelist,
                 blacklist, result, guard_count, active_count,
                 prefilter_fallbacks, probes, output>>

\* line 1398 of list_fallbacks; nothing catches the exception, and list.sort
\* leaves the list as it was when the key function raises
call_sort_fallbacks_by_measured_bandwidth ==
  /\ pc = "sort"
  /\ LET r == sort_fallbacks_by_measured_bandwidth(fallbacks)
     IN IF r.exc # "none"
        THEN /\ pc' = "raised"
             /\ result' = r
             /\ UNCHANGED fallbacks
        ELSE /\ pc' = "sorted"
             /\ fallbacks' = r.ret
             /\ UNCHANGED result
  /\ UNCHANGED <<downloads, arg, now,
                 config, doc, idx, candidates, whitelist,
                 blacklist, guard_count, active_count, prefilter_fallbacks,
                 probes, output>>

MaxSorted == 3

\* measured bandwidths below, at and above MIN_BANDWIDTH
SortBandwidths == {MIN_BANDWIDTH - 1, MIN_BANDWIDTH, MIN_BANDWIDTH + 5}

\* relays 1..n with their measured bandwidth set, in any order of bandwidth
SortLists ==
  UNION {{[i \in 1..n |->
             LET c == Candidate(GoodDetails(i)).ret
             IN [c EXCEPT !.data =
                   SetKey(c.data, "measured_bandwidth", bw[i])]] :
            bw \in [1..n -> SortBandwidths]} : n \in 0..MaxSorted}

InitSort ==
  /\ config = DefaultConfig
  /\ pc = "remove_low"
  /\ doc = <<>>
  /\ idx = 1
  /\ candidates = EmptyDict
  /\ fallbacks \in SortLists
  /\ whitelist = <<>>
  /\ blacklist = <<>>
  /\ result = Return(FALSE)
  /\ guard_count = 0
  /\ active_count = 0
  /\ prefilter_fallbacks = fallbacks
  /\ probes = <<>>
  /\ output = <<>>
  /\ arg = None
  /\ now = StartOfRun
  /\ downloads = <<>>

NextSort ==
  remove_low_bandwidth_relays \/ call_sort_fallbacks_by_measured_bandwidth

SpecSort == InitSort /\ [][NextSort]_vars

---------------------------------------------------------------------------
(* list_fallbacks from the details document to the bandwidth estimate *)

MaxRunDoc == 2

\* complete uptime records: relays 1 and 2 always up, relay 1 up half the time
RunUptimeRecords ==
  {UptimeRecord(f, Some(HistoryGood), Some(HistoryGood), Some(HistoryGood),
                None) : f \in 1..2}
    \cup {UptimeRecord(1, Some(HistoryLow), Some(HistoryGood),
                       Some(HistoryGood), None)}

\* what fetch('uptime') can return
FetchedUptimes == ListsUpTo(RunUptimeRecords, MaxRunDoc)

\* CandidateList._add_uptimes: the uptime document is fetched and its loop
\* starts
_add_uptimes ==
  /\ pc = "fetch_uptime"
  /\ \E d \in FetchedUptimes : doc' = d
  /\ idx' = 1
  /\ pc' = "add_uptimes"
  /\ UNCHANGED <<downloads, arg, now,
                 config, candidates, fallbacks, whitelist, blacklist, result,
                 guard_count, active_count, prefilter_fallbacks, probes,
                 output>>

\* list_fallbacks between two calls on the CandidateList: after
\* compute_fallbacks the filter (lines 1382-1387), after the filter its
\* summary is printed (line 1388, the excluded count in final_count) and the
\* bandwidths are calculated (line 1393), then the pruning (line 1394), and
\* after the sort the summary (line 1406)
list_fallbacks_goes_on ==
  /\ pc \in {"computed", "filtered", "measured", "sorted"}
  /\ pc' = CASE pc = "computed" -> "filter"
             [] pc = "filtered" -> "calculate"
             [] pc = "measured" -> "remove_low"
             [] pc = "sorted" -> "summarise"
  /\ output' = IF pc = "filtered"
               THEN Append(output, Item("filters", result.ret, FALSE, "", FALSE))
               ELSE output
  /\ UNCHANGED <<downloads, arg, now,
                 config, doc, idx, candidates, fallbacks, whitelist,
                 blacklist, result, guard_count, active_count,
                 prefilter_fallbacks, probes>>

\* the details documents, the whitelists and the blacklists of a run: two
\* relays with complete records, the whitelist entries written for them, and
\* a blacklist that names relay 1, or is the line "1.2.3.1:" with its empty
\* dirport, or nothing
RunDetails == {GoodDetails(1), GoodDetails(2)}

RunWhitelistEntries == {EntryFor(Candidate(d).ret) : d \in RunDetails}

RunBlacklists ==
  {<<>>, <<[id |-> Fingerprints[1]]>>,
   <<[ipv4 |-> IPv4Of(1), dirport |-> <<>>]>>}

InitRun ==
  /\ config = DefaultConfig
  /\ pc = "add_details"
  /\ doc \in ListsUpTo(RunDetails, MaxRunDoc)
  /\ idx = 1
  /\ candidates = EmptyDict
  /\ fallbacks = <<>>
  /\ whitelist \in ListsUpTo(RunWhitelistEntries, MaxRunDoc)
  /\ blacklist \in RunBlacklists
  /\ result = Return(FALSE)
  /\ guard_count = 0
  /\ active_count = 0
  /\ prefilter_fallbacks = <<>>
  /\ probes = <<>>
  /\ output = <<>>
  /\ arg = None
  /\ now = StartOfRun
  /\ downloads = <<>>

\* calculate_measured_bandwidth raises on every list (the sort on a list
\* with a relay, the median on an empty one), so no run gets to
\* remove_low_bandwidth_relays and the actions after it
NextRun ==
  \/ _add_relay
  \/ _add_details_done
  \/ _add_uptimes
  \/ _add_uptime
  \/ _add_uptimes_done
  \/ compute_fallbacks
  \/ list_fallbacks_goes_on
  \/ apply_filter_lists
  \/ calculate_measured_bandwidth

SpecRun == InitRun /\ [][NextRun]_vars

---------------------------------------------------------------------------
(* _add_details on a document with one relay whose OR addresses vary *)

\* "01.2.3.1": four groups, the first with a leading zero
LeadingZeroIPv4 == <<"0">> \o IPv4Of(1)

\* relay 1 with its DirPort on "01.2.3.1" and the OR addresses l
LeadingZeroDetails(l) ==
  [AddressDetails(l)
     EXCEPT !["dir_address"] = AddrPort(LeadingZeroIPv4, DirPortStr)]

\* relay 1 with every list of OR addresses, its DirPort on "1.2.3.1"; and
\* with its DirPort on "01.2.3.1" and an OR address there
OrportDetails ==
  {AddressDetails(l) : l \in ORAddressLists}
    \cup {LeadingZeroDetails(l) :
            l \in {<<AddrPort(LeadingZeroIPv4, ORPortStr)>>,
                   <<AddrPort(IPv4Of(1), ORPortStr),
                     AddrPort(LeadingZeroIPv4, ORPortStr)>>}}

\* the document has relay 1 alone, or with relay 2 before or after it
InitOrport ==
  /\ config = DefaultConfig
  /\ pc = "add_details"
  /\ \E d \in OrportDetails :
       doc \in {<<d>>, <<GoodDetails(2), d>>, <<d, GoodDetails(2)>>}
  /\ idx = 1
  /\ candidates = EmptyDict
  /\ fallbacks = <<>>
  /\ whitelist = <<>>
  /\ blacklist = <<>>
  /\ result = Return(FALSE)
  /\ guard_count = 0
  /\ active_count = 0
  /\ prefilter_fallbacks = <<>>
  /\ probes = <<>>
  /\ output = <<>>
  /\ arg = None
  /\ now = StartOfRun
  /\ downloads = <<>>

SpecOrport == InitOrport /\ [][NextIngest]_vars

\* every stage
Init ==
  \/ InitIngest \/ InitWhitelist \/ InitBlacklist \/ InitFilter \/ InitSelect
  \/ InitMeasured \/ InitBandwidth \/ InitCandidate \/ InitUptime
  \/ InitHistory \/ InitAddresses \/ InitIPv4 \/ InitProbe \/ InitSort
  \/ InitRun \/ InitOrport

Next ==
  \/ _add_relay
  \/ _add_details_done
  \/ call_is_in_whitelist
  \/ call_is_in_blacklist
  \/ apply_filter_lists
  \/ summarise
  \/ select_relay
  \/ select_exhausted
  \/ set_measured_bandwidth
  \/ calculate_measured_bandwidth
  \/ call_fallback_median
  \/ call_is_candidate
  \/ _add_uptime
  \/ _add_uptimes_done
  \/ compute_fallbacks
  \/ call_extract_generic_history
  \/ new_Candidate
  \/ call_is_valid_ipv4_address
  \/ remove_low_bandwidth_relays
  \/ call_sort_fallbacks_by_measured_bandwidth
  \/ _add_uptimes
  \/ list_fallbacks_goes_on

Spec == Init /\ [][Next]_vars

---------------------------------------------------------------------------
(* The selection loop: C1 - C4 *)

\* how many of the first k probed relays passed their check
RECURSIVE passed(_)
passed(k) ==
  IF k = 0 THEN 0 ELSE passed(k - 1) + (IF probes[k] THEN 1 ELSE 0)

\* the summary carried the "#error Fallback Count ... is too low" line
error_signalled ==
  \E i \in 1..Len(output) : output[i].kind = "summary" /\ output[i].error

\* C1: in the selection loop the accepted relays are exactly the first
\* max_count relays of the list whose check succeeds (all that pass when fewer
\* pass): a relay that fails is not counted and the loop goes on, a relay that
\* passes is counted, never more than max_count relays are accepted, no relay
\* after the one at which the count reached max_count is probed, and the loop
\* ends short of max_count only when the list is used up.
C1_FirstPassingUpToCap ==
  pc \in {"select", "done"} =>
    /\ active_count = passed(Len(probes))
    /\ active_count <= max_count
    /\ \A j \in 1..Len(probes) : \A k \in 1..(j - 1) :
         ~(probes[k] /\ passed(k) = max_count)
    /\ pc = "done" =>
         active_count = max_count \/ Len(probes) = Len(fallbacks)

\* C2: at the end of every run active_count is at most max_count, for every
\* cap the guard count and the configuration produce.
C2_AcceptedAtMostCap ==
  pc = "done" => active_count <= max_count

\* C3: a run signals the insufficient-selection error if and only if the
\* final number of accepted relays is below MIN_FALLBACK_COUNT.
C3_ErrorIffTooFewAccepted ==
  pc = "done" => (error_signalled <=> active_count < MIN_FALLBACK_COUNT)

\* C4: once the insufficient-selection error has been signalled, no relay is
\* emitted as an active fallback entry.
C4_NoActiveEntryAfterError ==
  \A i \in 1..Len(output) : \A j \in (i + 1)..Len(output) :
    ~(/\ output[i].kind = "summary" /\ output[i].error
      /\ output[j].kind = "fallback" /\ output[j].active)

---------------------------------------------------------------------------
(* Ingestion: C5 *)

\* C5: a relay whose record cannot be built is dropped alone: the run is not
\* ended by it, and once the document has been read every relay whose record
\* can be built is in the CandidateList.
C5_RecordFailureIsolated ==
  /\ pc # "raised"
  /\ pc = "fetch_uptime" =>
       \A i \in 1..Len(doc) :
         Candidate(doc[i]).exc = "none" =>
           Candidate(doc[i]).ret.fpr \in DOMAIN candidates

---------------------------------------------------------------------------
(* The filter lists: C6 *)

\* the truth table of C6 for the relay f
C6_Kept(f) ==
  LET in_whitelist == is_in_whitelist(f, whitelist).ret
      in_blacklist == is_in_blacklist(f, blacklist).ret
  IN \/ in_whitelist /\ in_blacklist /\ ~BLACKLIST_EXCLUDES_WHITELIST_ENTRIES
     \/ in_whitelist /\ ~in_blacklist
     \/ ~in_whitelist /\ ~in_blacklist /\ INCLUDE_UNLISTED_ENTRIES

\* C6: apply_filter_lists keeps exactly the candidates the truth table over
\* (in_whitelist, in_blacklist) keeps, each decided on its own: in both lists,
\* kept unless the blacklist overrides; in the whitelist only, kept; in the
\* blacklist only, dropped; in neither, kept when unlisted entries are
\* included.
C6_FilterTruthTable ==
  pc = "filtered" => fallbacks = SelectSeq(prefilter_fallbacks, C6_Kept)

\* a filtered list of two relays under "the whitelist wins": one in both
\* lists, kept, and one in neither, dropped
C6_Witness ==
  /\ pc = "filtered"
  /\ ~BLACKLIST_EXCLUDES_WHITELIST_ENTRIES /\ ~INCLUDE_UNLISTED_ENTRIES
  /\ Len(prefilter_fallbacks) = 2 /\ Len(fallbacks) = 1
  /\ is_in_whitelist(prefilter_fallbacks[1], whitelist).ret
  /\ is_in_blacklist(prefilter_fallbacks[1], blacklist).ret
  /\ ~is_in_whitelist(prefilter_fallbacks[2], whitelist).ret
  /\ ~is_in_blacklist(prefilter_fallbacks[2], blacklist).ret
  /\ fallbacks[1] = prefilter_fallbacks[1]

---------------------------------------------------------------------------
(* The whitelist: C7, C8 *)

\* every dirport and orport of the list is a literal that int() takes
PortsAreNumbers(relaylist) ==
  \A i \in 1..Len(relaylist) :
    \A k \in {"dirport", "orport"} \cap DOMAIN relaylist[i] :
      py_int(relaylist[i][k]).exc = "none"

\* the entry e equals the relay c on fingerprint, IPv4, DirPort and ORPort
EqualOnFour(e, c) ==
  /\ e["id"] = c.fpr
  /\ e["ipv4"] = c.dirip
  /\ int_is(e["dirport"], c.dirport)
  /\ int_is(e["orport"], c.orport)

\* C7: with no IPv6 on the relay nor in an entry (the entries carrying the
\* four whitelist keys, with ports that are numbers), is_in_whitelist
\* returns true exactly when some entry equals the relay on all four of id,
\* ipv4, dirport and orport; an entry that differs in one of them neither
\* matches nor stops a later one from matching.
C7_WhitelistExactMatch ==
  (/\ pc = "returned"
   /\ ~has_ipv6(relay)
   /\ \A i \in 1..Len(whitelist) : DOMAIN whitelist[i] = WhitelistKeys
   /\ PortsAreNumbers(whitelist))
  => result = Return(\E i \in 1..Len(whitelist) :
                        EqualOnFour(whitelist[i], relay))

\* the first entry has the fingerprint of the relay and another ORPort, the
\* second equals the relay, and the call returned True
C7_Witness ==
  /\ pc = "returned"
  /\ ~has_ipv6(relay)
  /\ Len(whitelist) = 2
  /\ \A i \in 1..2 : DOMAIN whitelist[i] = WhitelistKeys
  /\ whitelist[1]["id"] = relay.fpr
  /\ whitelist[1]["ipv4"] = relay.dirip
  /\ int_is(whitelist[1]["dirport"], relay.dirport)
  /\ py_int(whitelist[1]["orport"]).exc = "none"
  /\ py_int(whitelist[1]["orport"]).ret # relay.orport
  /\ EqualOnFour(whitelist[2], relay)
  /\ result = Return(TRUE)

\* the IPv6 of the entry e and of the relay c agree: both have one and they
\* are equal, or neither has one
Ipv6Agrees(e, c) ==
  IF "ipv6" \in DOMAIN e /\ has_ipv6(c) THEN e["ipv6"] = ipv6_of(c)
  ELSE "ipv6" \notin DOMAIN e /\ ~has_ipv6(c)

\* C8: in a whitelist of entries that carry the four keys, with ports that
\* are numbers, an entry equal to the relay on the four keys matches, when
\* both sides have IPv6, only if the IPv6 values are equal, and is a
\* non-match when just one side has IPv6; the call then goes on with the
\* remaining entries and returns.
C8_Ipv6PresenceSymmetric ==
  (/\ pc = "returned"
   /\ \A i \in 1..Len(whitelist) : WhitelistKeys \subseteq DOMAIN whitelist[i]
   /\ PortsAreNumbers(whitelist))
  => result = Return(\E i \in 1..Len(whitelist) :
                        /\ EqualOnFour(whitelist[i], relay)
                        /\ Ipv6Agrees(whitelist[i], relay))

---------------------------------------------------------------------------
(* The blacklist: C9, C10 *)

\* the groups of C9 for the entry e and the relay c
C9_Group(e, c) ==
  LET has(k) == k \in DOMAIN e
  IN \/ has("id") /\ e["id"] = c.fpr
     \/ /\ has("ipv4") /\ e["ipv4"] = c.dirip
        /\ has("dirport") /\ int_is(e["dirport"], c.dirport)
     \/ /\ has("ipv4") /\ e["ipv4"] = c.dirip
        /\ has("orport") /\ int_is(e["orport"], c.orport)
     \/ /\ has("ipv4") /\ e["ipv4"] = c.dirip
        /\ ~has("dirport") /\ ~has("orport")
     \/ /\ has("ipv6") /\ has_ipv6(c) /\ e["ipv6"] = ipv6_of(c)
        /\ has("dirport") => int_is(e["dirport"], c.dirport)

\* C9: with a blacklist whose ports are numbers, is_in_blacklist returns
\* true exactly when some entry satisfies one of the groups: id; ipv4 and
\* dirport; ipv4 and orport; ipv4 with neither port; ipv6 (and dirport, if
\* the entry has one).
C9_BlacklistGroups ==
  pc = "returned" /\ PortsAreNumbers(blacklist) =>
    result = Return(\E i \in 1..Len(blacklist) : C9_Group(blacklist[i], relay))

\* C10: in a blacklist whose ports are numbers, an entry whose only key is
\* ipv4 makes is_in_blacklist return true for a relay on that address,
\* whatever its ports, and, alone in the list, false for a relay on another
\* address.
C10_AddressOnlyEntry ==
  pc = "returned" /\ PortsAreNumbers(blacklist) =>
    \A i \in 1..Len(blacklist) :
      DOMAIN blacklist[i] = {"ipv4"} =>
        /\ blacklist[i]["ipv4"] = relay.dirip => result = Return(TRUE)
        /\ (Len(blacklist) = 1 /\ blacklist[i]["ipv4"] # relay.dirip)
             => result = Return(FALSE)

\* an address-only entry, alone, has blocked a relay on that address whose
\* DirPort and ORPort are not the usual ones
C10_Witness ==
  /\ pc = "returned"
  /\ Len(blacklist) = 1
  /\ DOMAIN blacklist[1] = {"ipv4"}
  /\ blacklist[1]["ipv4"] = relay.dirip
  /\ relay.dirport = 443 /\ relay.orport = 9002
  /\ result = Return(TRUE)

---------------------------------------------------------------------------
(* The bandwidth estimate: C11 - C13 *)

\* C11: for a relay with a nonzero advertised bandwidth measured_bandwidth is
\* the smaller of the advertised bandwidth and consensus_weight * factor
\* (times EXIT_BANDWIDTH_FRACTION for a relay with the Exit flag), so never
\* above the advertised bandwidth; for a relay with an advertised bandwidth
\* of zero it is the value derived from the consensus weight, as it is.
C11_EstimateCappedByAdvertised ==
  pc = "returned" /\ "measured_bandwidth" \in DOMAIN relay.data =>
    LET cw == relay.data["consensus_weight"]
        adv == relay.data["advertised_bandwidth"]
        derived == IF is_exit(relay) THEN cw * arg * EXIT_BANDWIDTH_FRACTION
                   ELSE cw * arg
        estimate == relay.data["measured_bandwidth"]
    IN IF adv # 0
       THEN /\ estimate = (IF derived <= adv THEN derived ELSE adv)
            /\ estimate <= adv
       ELSE estimate = derived

\* an Exit relay whose derived value, 3 * 2 * 2, is above what it advertises:
\* the estimate is the advertised bandwidth
C11_Witness ==
  /\ pc = "returned"
  /\ is_exit(relay)
  /\ EXIT_BANDWIDTH_FRACTION = 2 /\ arg = 2
  /\ relay.data["consensus_weight"] = 3
  /\ relay.data["advertised_bandwidth"] = 7
  /\ relay.data["measured_bandwidth"] = 7

\* the factor of the relay c: advertised_bandwidth / consensus_weight
C12_Factor(c) == c.data["advertised_bandwidth"] \div c.data["consensus_weight"]

\* l in ascending order of the factor, members of equal factor in the order
\* they have in l
RECURSIVE C12_Ascending(_)
C12_Ascending(l) ==
  IF Len(l) = 0 THEN <<>>
  ELSE LET rest == C12_Ascending(SubSeq(l, 1, Len(l) - 1))
           x == l[Len(l)]
           k == Cardinality({i \in 1..Len(rest) :
                               C12_Factor(rest[i]) <= C12_Factor(x)})
       IN SubSeq(rest, 1, k) \o <<x>> \o SubSeq(rest, k + 1, Len(rest))

\* the positions of the ordered list l from the low median on whose relay
\* advertises a bandwidth
C12_Usable(l) ==
  {i \in 1..Len(l) :
     /\ i >= ((Len(l) - 1) \div 2) + 1
     /\ l[i].data["advertised_bandwidth"] # 0}

C12_MedianPosition(l) ==
  CHOOSE i \in C12_Usable(l) : \A j \in C12_Usable(l) : i <= j

\* C12: calculate_measured_bandwidth puts the list in ascending order of
\* cw_to_bw_factor, takes the factor of the relay at the smallest position
\* i >= floor((n-1)/2) whose advertised bandwidth is nonzero, and gives every
\* relay of the list the measured bandwidth that factor yields.
C12_MedianFactorApplied ==
  LET ordered == C12_Ascending(prefilter_fallbacks)
  IN (pc \in {"raised", "measured"} /\ C12_Usable(ordered) # {}) =>
       /\ pc = "measured"
       /\ fallbacks =
            [i \in 1..Len(ordered) |->
               with_measured_bandwidth(
                 ordered[i], C12_Factor(ordered[C12_MedianPosition(ordered)]))]

\* C13: when no relay can serve as the median (the list is empty, or every
\* relay from the low median on advertises no bandwidth), the bandwidth
\* estimation ends the run with the error kept for that case, and no relay
\* has a measured bandwidth.
C13_NoMedianIsFatal ==
  LET ordered == C12_Ascending(prefilter_fallbacks)
  IN (pc \in {"raised", "measured"} /\ C12_Usable(ordered) = {}) =>
       /\ pc = "raised"
       /\ result = Raise("NoMedianAvailableError")
       /\ \A i \in 1..Len(fallbacks) :
            "measured_bandwidth" \notin DOMAIN fallbacks[i].data

---------------------------------------------------------------------------
(* Eligibility: C14, C15 *)

\* a >= b for two fractions
C14_AtLeast(a, b) == a[1] * b[2] >= b[1] * a[2]

\* the conditions of C14 other than the one on the BadExit average
C14_OtherConditions(c) ==
  /\ c.data["last_changed_address_or_port"]
       <= now - ADDRESS_AND_PORT_STABLE_DAYS * 86400
  /\ C14_AtLeast(c.running, CUTOFF_RUNNING)
  /\ C14_AtLeast(c.v2dir, CUTOFF_V2DIR)
  /\ C14_AtLeast(c.guard, CUTOFF_GUARD)
  /\ "recommended_version" \in DOMAIN c.data
  /\ c.data["recommended_version"]
  /\ "consensus_weight" \in DOMAIN c.data
  /\ c.data["consensus_weight"] >= 1
  /\ (PERFORM_IPV4_DIRPORT_CHECKS \/ PERFORM_IPV6_DIRPORT_CHECKS)
       => is_running(c)

\* the BadExit average is absent or at most PERMITTED_BADEXIT
C14_BadExitCondition(c) ==
  \/ "badexit" \notin DOMAIN c
  \/ IsNone(c.badexit)
  \/ C14_AtLeast(PERMITTED_BADEXIT, TheVal(c.badexit))

\* C14: is_candidate returns true exactly when the address is stable since
\* the cutoff, the running, v2dir and guard averages reach their cutoffs, the
\* BadExit average is absent or within PERMITTED_BADEXIT, the version is
\* recommended, the consensus weight is at least 1 and, with DirPort checks
\* on, the relay has the Running flag now; the order of the tests decides the
\* logged reason alone.
C14_EligibleIffAllConditions ==
  pc = "returned" =>
    result = Return(C14_OtherConditions(relay) /\ C14_BadExitCondition(relay))

\* a relay that meets every condition and is a candidate, its guard average
\* just at the cutoff
C14_Witness ==
  /\ pc = "returned"
  /\ result = Return(TRUE)
  /\ relay.guard = CUTOFF_GUARD
  /\ relay.badexit = Some(Rat(0, 1))
  /\ relay.data["consensus_weight"] = 1
  /\ is_running(relay) /\ PERFORM_IPV4_DIRPORT_CHECKS

\* the last record of the uptime document read so far that gave relay f its
\* averages: one with the Running, Guard and V2Dir histories
C15_LastUptime(f) ==
  LET complete == {i \in 1..(idx - 1) :
                     /\ "fingerprint" \in DOMAIN doc[i]
                     /\ doc[i]["fingerprint"] = f
                     /\ "flags" \in DOMAIN doc[i]
                     /\ {"Running", "Guard", "V2Dir"}
                          \subseteq DOMAIN doc[i]["flags"]}
  IN IF complete = {} THEN None
     ELSE Some(doc[CHOOSE i \in complete : \A j \in complete : j <= i])

\* C15: a relay whose uptime record has the Running, Guard and V2Dir
\* histories and no BadExit history keeps None as its BadExit average, and is
\* a candidate when it meets every other condition.
C15_AbsentBadExitPasses ==
  pc = "computed" =>
    \A f \in DOMAIN candidates :
      LET u == C15_LastUptime(f)
      IN (~IsNone(u) /\ "BadExit" \notin DOMAIN TheVal(u)["flags"]) =>
           /\ candidates[f].badexit = None
           /\ C14_OtherConditions(candidates[f]) =>
                \E i \in 1..Len(fallbacks) : fallbacks[i] = candidates[f]

\* relay F1 was given good histories and no BadExit history, and is among the
\* fallbacks
C15_Witness ==
  /\ pc = "computed"
  /\ ~IsNone(C15_LastUptime("F1"))
  /\ "BadExit" \notin DOMAIN TheVal(C15_LastUptime("F1"))["flags"]
  /\ candidates["F1"].badexit = None
  /\ candidates["F1"].running = Rat(1, 1)
  /\ \E i \in 1..Len(fallbacks) : fallbacks[i].fpr = "F1"

---------------------------------------------------------------------------
(* The flag histories: C16 *)

\* the time of the newest and of the oldest sample of the period h
C16_Newest(h) == parse_ts(h.last)
C16_Oldest(h) == parse_ts(h.last) - (Len(h.values) - 1) * h.interval

\* C16: when the samples of a coarse period all lie in the time range of a
\* finer period of the same history (its oldest and its newest sample are
\* between the oldest and the newest sample of the finer period, the ends
\* included), no value of the coarse period is emitted.
C16_CoveredCoarsePeriodSkipped ==
  pc = "extracted" =>
    \A f \in DOMAIN arg : \A c \in DOMAIN arg :
      (/\ arg[f].interval < arg[c].interval
       /\ Len(arg[f].values) > 0 /\ Len(arg[c].values) > 0
       /\ C16_Oldest(arg[f]) <= C16_Oldest(arg[c])
       /\ C16_Newest(arg[c]) <= C16_Newest(arg[f]))
      => \A i \in 1..Len(result.ret) :
           result.ret[i].length # arg[c].interval

---------------------------------------------------------------------------
(* Address stabilisation: C17 *)

\* how many times the address a is in the list l
C17_Occurrences(l, a) == Cardinality({i \in 1..Len(l) : l[i] = a})

\* the lists l and m have the same first address and the same secondary
\* addresses, each as many times
C17_SameAddresses(l, m) ==
  /\ Len(l) = Len(m)
  /\ Len(l) > 0 => l[1] = m[1]
  /\ \A a \in ORAddresses :
       C17_Occurrences(SubSeq(l, 2, Len(l)), a)
         = C17_Occurrences(SubSeq(m, 2, Len(m)), a)

\* what is derived from the addresses of a constructed relay, or the
\* exception of the construction
C17_Derived(r) ==
  IF r.exc # "none" THEN <<r.exc>>
  ELSE <<r.ret.data["or_addresses"], r.ret.orport, r.ret.ipv6addr,
         r.ret.ipv6orport>>

\* C17: the stabilised list keeps the first reported address first and has
\* the other addresses in string order; stabilising it again changes
\* nothing; and a record with the same first address and the same secondary
\* addresses in any order gets the same stabilised list, the same ORPort
\* and the same IPv6 address.
C17_StabilisedAddressesCanonical ==
  pc = "constructed" =>
    LET raw == arg["or_addresses"]
        stable == _stable_sort_or_addresses(raw)
    IN /\ result.exc = "none" => result.ret.data["or_addresses"] = stable
       /\ Len(stable) = Len(raw)
       /\ Len(raw) > 0 => stable[1] = raw[1]
       /\ \A i \in 2..(Len(stable) - 1) : ~str_less(stable[i + 1], stable[i])
       /\ _stable_sort_or_addresses(stable) = stable
       /\ \A other \in ORAddressLists :
            C17_SameAddresses(other, raw) =>
              /\ _stable_sort_or_addresses(other) = stable
              /\ C17_Derived(Candidate(AddressDetails(other)))
                   = C17_Derived(result)

\* a relay is constructed from three addresses whose secondaries arrive out
\* of string order, and its ORPort is the one of a secondary address
C17_Witness ==
  /\ pc = "constructed"
  /\ result.exc = "none"
  /\ Len(arg["or_addresses"]) = 3
  /\ str_less(arg["or_addresses"][3], arg["or_addresses"][2])
  /\ arg["or_addresses"][1] = AddrPort(IPv4Of(2), ORPortStr)
  /\ result.ret.data["or_addresses"] # arg["or_addresses"]

---------------------------------------------------------------------------
(* The IPv4 validator: C18 *)

\* the characters of s from position a to position b are one decimal group:
\* one to three digits, at most 255, with no leading zero unless it is "0"
C18_Octet(s, a, b) ==
  /\ a <= b
  /\ b - a <= 2
  /\ \A i \in a..b : s[i] \in Digits
  /\ b > a => s[a] # "0"
  /\ b - a = 2 =>
       100 * DigitVal(s[a]) + 10 * DigitVal(s[a + 1]) + DigitVal(s[b]) <= 255

\* s is four such groups with a period between them
C18_DottedQuad(s) ==
  \E i \in 1..Len(s) :
    /\ s[i] = "." /\ C18_Octet(s, 1, i - 1)
    /\ \E j \in (i + 1)..Len(s) :
         /\ s[j] = "." /\ C18_Octet(s, i + 1, j - 1)
         /\ \E k \in (j + 1)..Len(s) :
              /\ s[k] = "." /\ C18_Octet(s, j + 1, k - 1)
              /\ C18_Octet(s, k + 1, Len(s))

\* C18: is_valid_ipv4_address returns true exactly for the strings made of
\* four non-empty groups of decimal digits separated by periods, each of
\* value 0 to 255 and with no leading zero unless the group is "0", and
\* false for every other string.
C18_Ipv4ValidExactlyForDottedQuads ==
  pc = "validated" => result = Return(C18_DottedQuad(arg))

\* "1.0.255.1" is accepted
C18_Witness ==
  /\ pc = "validated"
  /\ arg = JoinGroups(<<<<"1">>, <<"0">>, <<"2", "5", "5">>, <<"1">>>>)
  /\ result = Return(TRUE)

---------------------------------------------------------------------------
(* The liveness check: C19 *)

\* the downloads of the k-th relay probed that went to the address a
C19_Calls(k, a) ==
  {i \in 1..Len(downloads[k]) : downloads[k][i].dirip = a}

C19_First(k, a) == CHOOSE i \in C19_Calls(k, a) : \A j \in C19_Calls(k, a) : i <= j
C19_Last(k, a) == CHOOSE i \in C19_Calls(k, a) : \A j \in C19_Calls(k, a) : i >= j

\* the address family of a is not checked and has no download, or it has one
\* download, or two when the first failed; all with the DirPort and the
\* nickname of the relay x and the same deadline
C19_AttemptsOk(k, x, a, checked) ==
  IF ~checked THEN C19_Calls(k, a) = {}
  ELSE /\ Cardinality(C19_Calls(k, a)) \in 1..2
       /\ Cardinality(C19_Calls(k, a)) = 2
            <=> downloads[k][C19_First(k, a)].download_failed
       /\ \A i \in C19_Calls(k, a) :
            /\ downloads[k][i].dirport = x.dirport
            /\ downloads[k][i].nickname = x.data["nickname"]
            /\ downloads[k][i].max_time = CONSENSUS_DOWNLOAD_SPEED_MAX

\* the last download of a checked family succeeded
C19_FamilyPassed(k, a, checked) ==
  checked => ~downloads[k][C19_Last(k, a)].download_failed

C19_Ipv6Of(x) == IF IsNone(x.ipv6addr) THEN <<>> ELSE TheVal(x.ipv6addr)

C19_Ipv6Checked(x) == ~IsNone(x.ipv6addr) /\ PERFORM_IPV6_DIRPORT_CHECKS

\* C19: with retry enabled, the check of a relay downloads at most twice per
\* checked address family, a second time (same address, port, nickname and
\* deadline) exactly when the first download failed or was too slow; the
\* relay passes exactly when the last download of every checked family
\* succeeded; a relay that fails raises no error and the loop goes on to
\* the relays after it.
C19_RetryOncePerFamily ==
  CONSENSUS_DOWNLOAD_RETRY =>
    /\ Len(downloads) = Len(probes)
    /\ pc # "raised" /\ result.exc = "none"
    /\ \A k \in 1..Len(downloads) :
         LET x == fallbacks[k]
         IN /\ \A i \in 1..Len(downloads[k]) :
                 downloads[k][i].dirip \in {x.dirip, C19_Ipv6Of(x)}
            /\ C19_AttemptsOk(k, x, x.dirip, PERFORM_IPV4_DIRPORT_CHECKS)
            /\ C19_AttemptsOk(k, x, C19_Ipv6Of(x), C19_Ipv6Checked(x))
            /\ probes[k] <=>
                 /\ C19_FamilyPassed(k, x.dirip, PERFORM_IPV4_DIRPORT_CHECKS)
                 /\ C19_FamilyPassed(k, C19_Ipv6Of(x), C19_Ipv6Checked(x))
    /\ pc = "done" /\ Len(probes) < Len(fallbacks) =>
         Len(probes) > 0 /\ probes[Len(probes)]

\* a relay failed both of its IPv4 downloads and was excluded, and the relay
\* after it passed with a second IPv6 download
C19_Witness ==
  \E k \in 1..(Len(probes) - 1) :
    /\ Len(downloads[k]) = 2
    /\ downloads[k][1].download_failed /\ downloads[k][2].download_failed
    /\ ~probes[k]
    /\ probes[k + 1]
    /\ Len(downloads[k + 1]) = 3
    /\ downloads[k + 1][2].download_failed

---------------------------------------------------------------------------
(* The sort by measured bandwidth: C20 *)

\* l is a permutation of m
C20_Permutation(l, m) ==
  /\ Len(l) = Len(m)
  /\ \E p \in [1..Len(l) -> 1..Len(l)] :
       /\ \A i, j \in 1..Len(l) : i # j => p[i] # p[j]
       /\ \A i \in 1..Len(l) : l[i] = m[p[i]]

\* C20: after sort_fallbacks_by_measured_bandwidth the list is a permutation
\* of the pruned list in non-increasing order of measured bandwidth, and the
\* run goes on to the selection loop with the list in that order.
C20_SortedByMeasuredBandwidth ==
  pc \notin {"remove_low", "sort"} =>
    /\ pc = "sorted" /\ result.exc = "none"
    /\ C20_Permutation(fallbacks, above_min_bw_fallbacks(prefilter_fallbacks))
    /\ \A i \in 1..(Len(fallbacks) - 1) :
         fallbacks[i].data["measured_bandwidth"]
           >= fallbacks[i + 1].data["measured_bandwidth"]

---------------------------------------------------------------------------
(* The order of the stages: C21 *)

\* C21: a run on well-formed inputs goes through the stages in their order,
\* each on the list of the one before; a run with at least one eligible
\* relay that the lists permit gets to the probe-and-accept stage: it does
\* not end, with that relay in its list, in an exception before that stage.
C21_PermittedRelayReachesProbe ==
  ~(pc = "raised" /\ Len(fallbacks) > 0)

---------------------------------------------------------------------------
(* The onion-routing port: C22 *)

\* the IP part and the port part of the address a: before and after its
\* last colon
C22_IPPart(a) ==
  LET k == CHOOSE k \in 1..Len(a) :
             a[k] = ":" /\ \A j \in (k + 1)..Len(a) : a[j] # ":"
  IN SubSeq(a, 1, k - 1)

C22_PortPart(a) == SubSeq(a, Len(C22_IPPart(a)) + 2, Len(a))

\* the IP part of the directory address d: before its colon
C22_DirIP(d) ==
  LET k == CHOOSE k \in 1..Len(d) : d[k] = ":" IN SubSeq(d, 1, k - 1)

\* the positions of the stabilised list of the record r whose IP part is
\* the directory IP, a valid IPv4 literal
C22_Matching(r) ==
  LET stable == _stable_sort_or_addresses(r["or_addresses"])
  IN {j \in 1..Len(stable) :
        /\ C22_IPPart(stable[j]) = C22_DirIP(r["dir_address"])
        /\ C18_DottedQuad(C22_IPPart(stable[j]))}

\* the record r at position i of the document has been constructed
C22_Constructed(i) == i < idx

\* C22: the ORPort of a constructed relay is the port of the first address
\* of its stabilised list whose IP part is the directory IP and a valid
\* IPv4 literal; for a record with no such address the construction fails,
\* and the relay is never in the CandidateList.
C22_OrportOfFirstMatchingAddress ==
  /\ \A i \in 1..Len(doc) :
       C22_Constructed(i) =>
         LET r == doc[i]
             stable == _stable_sort_or_addresses(r["or_addresses"])
             m == C22_Matching(r)
         IN /\ m # {}
            /\ r["fingerprint"] \in DOMAIN candidates
            /\ \A j \in m :
                 (\A k \in m : j <= k) =>
                   int_is(C22_PortPart(stable[j]),
                          candidates[r["fingerprint"]].orport)
  /\ \A i \in 1..Len(doc) :
       C22_Matching(doc[i]) = {} =>
         /\ doc[i]["fingerprint"] \notin DOMAIN candidates
         /\ idx <= i
         /\ pc # "fetch_uptime"
         /\ idx = i => (pc = "add_details" \/ result = Raise("Exception"))
  /\ pc = "raised" => C22_Matching(doc[idx]) = {}

\* a relay whose primary address is not on the address of its DirPort is
\* in the CandidateList with the port of a secondary address, after
\* another relay
C22_Witness ==
  /\ pc = "fetch_uptime"
  /\ Len(doc) = 2
  /\ doc[2]["or_addresses"][1] = AddrPort(IPv4Of(2), ORPortStr)
  /\ Len(doc[2]["or_addresses"]) = 3
  /\ candidates[Fingerprints[1]].orport = py_int(AltORPortStr).ret

\* the construction of a relay with no address on its directory IP has
\* failed, after another relay was added
C22_WitnessFailed ==
  /\ pc = "raised"
  /\ idx = 2
  /\ Fingerprints[2] \in DOMAIN candidates
  /\ Fingerprints[1] \notin DOMAIN candidates

---------------------------------------------------------------------------
(* The IPv6 address: C23 *)

\* the positions of the stabilised list l that hold a valid IPv6 address
C23_Ipv6Positions(l) ==
  {j \in 1..Len(l) : is_valid_ipv6_address(C22_IPPart(l[j]))}

\* the least position of the non-empty set s
C23_First(s) == CHOOSE j \in s : \A k \in s : j <= k

\* C23: the IPv6 address of a constructed relay is the first valid IPv6
\* address of the stabilised list on the derived ORPort when there is one,
\* also behind a valid IPv6 address on another port; otherwise the first
\* valid IPv6 address of the list; and with no valid IPv6 address the relay
\* is constructed with ipv6addr and ipv6orport both None.
C23_Ipv6PrefersOrportAddress ==
  (pc = "constructed" /\ C22_Matching(arg) # {}) =>
    /\ result.exc = "none"
    /\ LET stable == result.ret.data["or_addresses"]
           all == C23_Ipv6Positions(stable)
           same == {j \in all :
                      int_is(C22_PortPart(stable[j]), result.ret.orport)}
           chosen == IF same # {} THEN C23_First(same) ELSE C23_First(all)
       IN IF all = {}
          THEN IsNone(result.ret.ipv6addr) /\ IsNone(result.ret.ipv6orport)
          ELSE /\ result.ret.ipv6addr = Some(C22_IPPart(stable[chosen]))
               /\ result.ret.ipv6orport = Some(C22_PortPart(stable[chosen]))

\* what the code does: the first valid IPv6 address of the stabilised
\* list, whatever its port
C23_Ipv6IsFirstInList ==
  (pc = "constructed" /\ C22_Matching(arg) # {}) =>
    /\ result.exc = "none"
    /\ LET stable == result.ret.data["or_addresses"]
           all == C23_Ipv6Positions(stable)
       IN IF all = {}
          THEN IsNone(result.ret.ipv6addr) /\ IsNone(result.ret.ipv6orport)
          ELSE /\ result.ret.ipv6addr
                    = Some(C22_IPPart(stable[C23_First(all)]))
               /\ result.ret.ipv6orport
                    = Some(C22_PortPart(stable[C23_First(all)]))

---------------------------------------------------------------------------
(* The watermark of the flag histories: C24 *)

\* the time of the emitted sample s, and the start of the interval of its
\* period that ends there
C24_Time(s) == now - s.age
C24_Start(s) == now - s.age - s.length

\* C24: the time ranges of any two emitted samples, each the one interval
\* of its period that ends at the time of the sample, never overlap, also
\* for samples of two periods; which is what a watermark moved back by one
\* interval at each emitted value gives.
C24_EmittedRangesDisjoint ==
  pc = "extracted" =>
    \A i \in 1..Len(result.ret) : \A j \in 1..Len(result.ret) :
      i < j =>
        \/ C24_Time(result.ret[j]) <= C24_Start(result.ret[i])
        \/ C24_Time(result.ret[i]) <= C24_Start(result.ret[j])

\* what the code does: the times of the emitted samples never go up, no
\* sample is later than the clock, and, in a history whose periods differ in
\* their interval, two samples of one period are an interval apart
C24_EmittedTimesDescend ==
  pc = "extracted" =>
    /\ \A i \in 1..Len(result.ret) : C24_Time(result.ret[i]) <= now
    /\ \A i \in 1..(Len(result.ret) - 1) :
         /\ C24_Time(result.ret[i + 1]) <= C24_Time(result.ret[i])
         /\ (/\ \A p \in DOMAIN arg : \A q \in DOMAIN arg :
                  p # q => arg[p].interval # arg[q].interval
             /\ result.ret[i + 1].length = result.ret[i].length)
              => C24_Time(result.ret[i + 1]) = C24_Start(result.ret[i])

---------------------------------------------------------------------------
(* Pruning by measured bandwidth: C25 *)

\* the positions of the list l whose relay has a measured bandwidth of
\* MIN_BANDWIDTH or more
C25_Kept(l) ==
  {k \in 1..Len(l) : l[k].data["measured_bandwidth"] >= MIN_BANDWIDTH}

\* C25: after remove_low_bandwidth_relays the list has exactly the relays
\* of the list before whose measured bandwidth is MIN_BANDWIDTH or more, in
\* the order they had; a relay at MIN_BANDWIDTH is kept.
C25_KeepsRelaysAtOrAboveMinBandwidth ==
  pc = "sort" =>
    \E at \in [1..Len(fallbacks) -> 1..Len(prefilter_fallbacks)] :
      /\ \A i \in 1..Len(fallbacks) : fallbacks[i] = prefilter_fallbacks[at[i]]
      /\ \A i \in 1..(Len(fallbacks) - 1) : at[i] < at[i + 1]
      /\ {at[i] : i \in 1..Len(fallbacks)} = C25_Kept(prefilter_fallbacks)

\* of three relays, the first above, the second below and the third at
\* MIN_BANDWIDTH, the first and the third are left, in that order
C25_Witness ==
  /\ pc = "sort"
  /\ Len(prefilter_fallbacks) = 3
  /\ prefilter_fallbacks[1].data["measured_bandwidth"] > MIN_BANDWIDTH
  /\ prefilter_fallbacks[2].data["measured_bandwidth"] < MIN_BANDWIDTH
  /\ prefilter_fallbacks[3].data["measured_bandwidth"] = MIN_BANDWIDTH
  /\ fallbacks = <<prefilter_fallbacks[1], prefilter_fallbacks[3]>>

---------------------------------------------------------------------------
(* The target count and the cap: C26 *)

\* the target count of lines 1371-1374 for a consensus of g guards
C26_TargetFor(g) ==
  IF FALLBACK_PROPORTION_OF_GUARDS_is_None THEN g ELSE (g * 2) \div 10

\* the cap is the lesser of the target count and MAX_FALLBACK_COUNT when
\* there is a maximum, and the target count when there is none
C26_Cap ==
  IF MAX_FALLBACK_COUNT_is_None THEN max_count = target_count
  ELSE /\ max_count <= target_count
       /\ max_count <= MAX_FALLBACK_COUNT
       /\ max_count = target_count \/ max_count = MAX_FALLBACK_COUNT

\* with a proportion of guards, the target count is a fifth of the guard
\* count, rounded down
C26_Proportion ==
  ~FALLBACK_PROPORTION_OF_GUARDS_is_None =>
    /\ 5 * target_count <= guard_count
    /\ guard_count < 5 * target_count + 5

\* C26 as stated: the target count is the truncated product of the guard
\* count and the proportion when there is a proportion, and a fixed number
\* that does not depend on the guard count, so the number a consensus with
\* no guards has, when there is none; the cap is as in C26_Cap.
C26_FixedTargetWithoutProportion ==
  /\ C26_Proportion
  /\ FALLBACK_PROPORTION_OF_GUARDS_is_None => target_count = C26_TargetFor(0)
  /\ C26_Cap

\* C26, amended: the target count is the truncated product of the guard
\* count and the proportion when there is a proportion, and the guard count
\* itself when there is none; the cap is as in C26_Cap.
C26_TargetIsGuardCountWithoutProportion ==
  /\ C26_Proportion
  /\ FALLBACK_PROPORTION_OF_GUARDS_is_None => target_count = guard_count
  /\ C26_Cap

\* with no proportion and no maximum, a run with 3 guards and 4 relays in
\* the list has stopped after its third fallback
C26_Witness ==
  /\ pc = "done"
  /\ FALLBACK_PROPORTION_OF_GUARDS_is_None
  /\ guard_count = 3
  /\ Len(fallbacks) = 4
  /\ active_count = 3
  /\ max_count = 3

\* with the proportion, a run with 14 guards has a target of 2
C26_WitnessProportion ==
  /\ pc = "done"
  /\ ~FALLBACK_PROPORTION_OF_GUARDS_is_None
  /\ guard_count = 14
  /\ target_count = 2
  /\ active_count = 2

\* the guard count list_fallbacks takes from count_guards is the number of
\* relays of the CandidateList with the Guard flag
C26_GuardCountCountsGuardFlags ==
  pc \in {"compute", "computed"} =>
    guard_count =
      Cardinality({f \in DOMAIN candidates :
                     \E i \in 1..Len(candidates[f].data["flags"]) :
                       candidates[f].data["flags"][i] = "Guard"})

---------------------------------------------------------------------------
(* IPv6 in the blacklist: C27 *)

\* the relay c with no IPv6 address
C27_WithoutIpv6(c) == [c EXCEPT !.ipv6addr = None, !.ipv6orport = None]

\* the list l with the ipv6 key taken out of every entry
C27_DropIpv6(l) ==
  [i \in 1..Len(l) |-> [k \in (DOMAIN l[i]) \ {"ipv6"} |-> l[i][k]]]

\* C27: a relay with no IPv6 address is never matched by a list whose
\* entries have the ipv6 key only; and unless the relay has an IPv6 address
\* and some entry has an ipv6 key, the call ends, with its answer or with
\* the exception of a port that is no number, as it does for the relay taken
\* without IPv6 and the entries taken without ipv6: the IPv6 side counts
\* only when both have it.
C27_Ipv6ComparedOnlyWhenBothHaveIt ==
  pc = "returned" =>
    /\ (/\ ~has_ipv6(relay)
        /\ \A i \in 1..Len(blacklist) : DOMAIN blacklist[i] = {"ipv6"})
         => result = Return(FALSE)
    /\ ~(/\ has_ipv6(relay)
         /\ \E i \in 1..Len(blacklist) : "ipv6" \in DOMAIN blacklist[i])
         => result = is_in_blacklist(C27_WithoutIpv6(relay),
                                      C27_DropIpv6(blacklist))
    /\ result = Return(TRUE) =>
         \/ is_in_blacklist(C27_WithoutIpv6(relay), C27_DropIpv6(blacklist))
              = Return(TRUE)
         \/ /\ has_ipv6(relay)
            /\ \E i \in 1..Len(blacklist) :
                 /\ "ipv6" \in DOMAIN blacklist[i]
                 /\ blacklist[i]["ipv6"] = ipv6_of(relay)

\* a relay with no IPv6 address has passed a blacklist of two entries that
\* have the ipv6 key only
C27_Witness ==
  /\ pc = "returned"
  /\ ~has_ipv6(relay)
  /\ Len(blacklist) = 2
  /\ \A i \in 1..2 : DOMAIN blacklist[i] = {"ipv6"}
  /\ result = Return(FALSE)

\* a relay with an IPv6 address is matched by an entry with no ipv6 key
C27_WitnessMatched ==
  /\ pc = "returned"
  /\ has_ipv6(relay)
  /\ blacklist = <<[ipv4 |-> relay.dirip, dirport |-> DirPortStr]>>
  /\ result = Return(TRUE)

---------------------------------------------------------------------------
(* The filter conserves the candidates: C28 *)

\* no relay is twice in the list l
C28_NoneTwice(l) == \A i, j \in 1..Len(l) : i # j => l[i] # l[j]

\* C28: when apply_filter_lists returns, the excluded_count it returns and
\* the length of the list it leaves add up to the length of the list
\* before; the list it leaves is the list before at increasing positions;
\* and no relay is twice in it when none was twice in the list before, as
\* in a list made from the keys of the CandidateList.
C28_FilterConservesCandidates ==
  pc = "filtered" =>
    /\ result.exc = "none"
    /\ result.ret + Len(fallbacks) = Len(prefilter_fallbacks)
    /\ \E at \in [1..Len(fallbacks) -> 1..Len(prefilter_fallbacks)] :
         /\ \A i \in 1..Len(fallbacks) :
              fallbacks[i] = prefilter_fallbacks[at[i]]
         /\ \A i \in 1..(Len(fallbacks) - 1) : at[i] < at[i + 1]
    /\ C28_NoneTwice(prefilter_fallbacks) => C28_NoneTwice(fallbacks)

\* of two relays, both in the whitelist and the first in the blacklist as
\* well, the second is left and one is counted as excluded
C28_Witness ==
  /\ pc = "filtered"
  /\ Len(prefilter_fallbacks) = 2
  /\ prefilter_fallbacks[1].fpr # prefilter_fallbacks[2].fpr
  /\ is_in_whitelist(prefilter_fallbacks[1], whitelist) = Return(TRUE)
  /\ is_in_blacklist(prefilter_fallbacks[1], blacklist) = Return(TRUE)
  /\ fallbacks = <<prefilter_fallbacks[2]>>
  /\ result.ret = 1

---------------------------------------------------------------------------
(* Relays with no usable uptime: C29 *)

\* the relay with the fingerprint f as Candidate() made it
C29_ConstructedRelays ==
  [k \in 1..2 |-> Candidate(GoodDetails(k)).ret]

C29_Constructed(f) ==
  C29_ConstructedRelays[CHOOSE k \in 1..2 : Fingerprints[k] = f]

\* the uptime document, as far as it has been read, has no record for f with
\* the flags section and the Running, Guard and V2Dir histories in it
C29_NoUsableUptime(f) ==
  \A i \in 1..Min(idx - 1, Len(doc)) :
    ~(/\ "fingerprint" \in DOMAIN doc[i]
      /\ doc[i]["fingerprint"] = f
      /\ "flags" \in DOMAIN doc[i]
      /\ {"Running", "Guard", "V2Dir"} \subseteq DOMAIN doc[i]["flags"])

\* C29: a relay that got no usable uptime history is as Candidate() made
\* it, with running, guard and v2dir at 0; is_candidate returns False for
\* it and raises nothing, though it meets every condition that is not an
\* average; and it is not in the list compute_fallbacks makes.
C29_NoUptimeIsNoCandidate ==
  pc \in {"add_uptimes", "compute", "computed"} =>
    \A f \in DOMAIN candidates :
      C29_NoUsableUptime(f) =>
        /\ candidates[f] = C29_Constructed(f)
        /\ candidates[f].running = Rat(0, 1)
        /\ candidates[f].guard = Rat(0, 1)
        /\ candidates[f].v2dir = Rat(0, 1)
        /\ is_candidate(candidates[f]) = Return(FALSE)
        /\ pc = "computed" =>
             \A i \in 1..Len(fallbacks) : fallbacks[i].fpr # f

\* the first relay has a record with no flags section and one with no Guard
\* history, the second is not in the uptime document: the list is empty
C29_Witness ==
  /\ pc = "computed"
  /\ Len(doc) = 2
  /\ "flags" \notin DOMAIN doc[1]
  /\ doc[1]["fingerprint"] = Fingerprints[1]
  /\ "flags" \in DOMAIN doc[2]
  /\ doc[2]["fingerprint"] = Fingerprints[1]
  /\ "Guard" \notin DOMAIN doc[2]["flags"]
  /\ candidates[Fingerprints[1]] = C29_Constructed(Fingerprints[1])
  /\ fallbacks = <<>>

===========================================================================
